---- MODULE Spec2Model ----
(***************************************************************************)
(* Model of the blog CMS: the backing store (articles, tags,               *)
(* article_tags), the process-markdown ingestion endpoint and the tag      *)
(* reconciliation written out in the endpoint, the editor, the settings    *)
(* modal and the article manager.                                          *)
(*                                                                         *)
(* A handler is a chain of awaited backend calls.  The position of a       *)
(* handler (pc) names the call it is awaiting; one action is the store     *)
(* executing that statement (atomically, which is the only guarantee the   *)
(* store gives) followed by the handler's code up to its next await.       *)
(* The schema of the store is not part of the repository, so whether       *)
(* tags.name is unique and whether article_tags has a primary key is a     *)
(* choice made in Init and never changed.                                  *)
(***************************************************************************)
EXTENDS Integers, Sequences, FiniteSets, Bags, TLC

\* Longest tag list of a document or of an editor session.
MaxTags == 2

\* Number of saves started in one behaviour.
MaxSaves == 2

\* Tag names: "x" has a row in the initial store, "a" and "b" have none.
Names == {"x", "a", "b"}

\* Titles of uploaded documents (a title stands for the document's derived
\* fields: title, slug, excerpt, category, read_time, body, date).
Titles == {"t1", "t2"}

\* The two concurrent invocations of the endpoint.
Runs == {"r1", "r2"}

TagLists == UNION {[1..n -> Names] : n \in 0..MaxTags}

\* Invocations of the editor's, the settings modal's and the manager's save.
Savers == {"s1", "s2"}

Procs == Runs \cup Savers

VARIABLES
  articles,      \* table articles: set of rows
  tags,          \* table tags: set of rows [id, name]
  article_tags,  \* table article_tags: bag of rows [article_id, tag_id]
  nextArticleId, \* ids the store has handed out for article rows
  schema,        \* [tagNameUnique, assocPk]: constraints the store enforces
  pc,            \* per invocation: the backend call it is awaiting
  req,           \* per endpoint invocation: the request it was started with
  save,          \* per save invocation: handler, article copy, new tag list
  local,         \* per invocation: article, tags, existingTags, newTags
  calls,         \* per invocation: backend calls issued, with their results
  resp,          \* per endpoint invocation: responses sent
  outcome,       \* per save invocation: "none", "saved" or "error"
  saves,         \* number of saves started so far
  markdown,      \* request body under derivation: the markdown text
  filename,      \* request body under derivation: the filename field
  derived,       \* what the endpoint derived from (markdown, filename)
  files,         \* uploader: the files of the list, by id
  fetches,       \* uploader: requests sent to the endpoint, with their results
  isProcessing,  \* uploader: Save All is running
  saveAll,       \* uploader: the files Save All took and where its loop is
  article,       \* editor: the article state (null before it is loaded)
  articleTags,   \* editor: the tag names
  newTag         \* metadata editor: the text of the tag input

vars == <<articles, tags, article_tags, nextArticleId, schema,
          pc, req, save, local, calls, resp, outcome, saves,
          markdown, filename, derived,
          files, fetches, isProcessing, saveAll, article, articleTags, newTag>>

page == <<files, fetches, isProcessing, saveAll, article, articleTags, newTag>>

document == <<markdown, filename, derived>>

store == <<articles, tags, article_tags, nextArticleId>>

----------------------------------------------------------------------------
\* Values and helpers

NoMarkdown == [type |-> "undefined", truthy |-> FALSE]

NoRequest == [method |-> "none", json |-> FALSE, markdown |-> NoMarkdown,
              title |-> "", tags |-> <<>>]

\* What the markdown field of a JSON body can be: absent, "", 0, 5, text.
MarkdownValues ==
  { NoMarkdown,
    [type |-> "string", truthy |-> FALSE],
    [type |-> "number", truthy |-> FALSE],
    [type |-> "number", truthy |-> TRUE],
    [type |-> "string", truthy |-> TRUE] }

Requests ==
  { [method |-> "OPTIONS", json |-> FALSE, markdown |-> NoMarkdown,
     title |-> "", tags |-> <<>>],
    [method |-> "POST", json |-> FALSE, markdown |-> NoMarkdown,
     title |-> "", tags |-> <<>>] }
  \cup
  { [method |-> "POST", json |-> TRUE, markdown |-> m,
     title |-> "", tags |-> <<>>] :
       m \in {v \in MarkdownValues : ~(v.type = "string" /\ v.truthy)} }
  \cup
  { [method |-> "POST", json |-> TRUE,
     markdown |-> [type |-> "string", truthy |-> TRUE],
     title |-> t, tags |-> l] : t \in Titles, l \in TagLists }

NoArticle == [id |-> 0, title |-> "", status |-> "", html_content |-> ""]

NoSave == [handler |-> "none", armed |-> FALSE, copy |-> NoArticle,
           title |-> "", tags |-> <<>>]

NoLocal == [article |-> NoArticle, tags |-> <<>>, existingTags |-> {},
            newTags |-> <<>>]

SeqToSet(s) == {s[i] : i \in DOMAIN s}

NoDuplicates(s) == \A i, j \in DOMAIN s : s[i] = s[j] => i = j

\* (mutant of MarkdownAccepted: the typeof test is left out)
MarkdownTruthy(m) == m.truthy

\* if (!markdown || typeof markdown !== "string") -> 400
MarkdownAccepted(m) == m.truthy /\ m.type = "string"

\* (mutant of ArticleData: the status is not fixed to draft)
ArticleDataPublished(id, title) ==
  [id |-> id, title |-> title, status |-> "published", html_content |-> "null"]

\* articleData of the endpoint
ArticleData(id, title) ==
  [id |-> id, title |-> title, status |-> "draft", html_content |-> "null"]

\* supabase.from("tags").select("id, name").in("name", names)
SelectTagsIn(table, names) == {t \in table : t.name \in SeqToSet(names)}

\* (mutant of NewTags: every requested name is inserted, existing or not)
NewTagsAll(names, existing) == names

\* tags.filter((name) => !existingTagNames.has(name))
NewTags(names, existing) ==
  SelectSeq(names, LAMBDA n : n \notin {t.name : t \in existing})

\* (mutant of InsertedTags: names that have a row are skipped, as an insert
\* with ON CONFLICT DO NOTHING would)
InsertedTagsSkipExisting(table, names) ==
  {[id |-> Cardinality(table) + i, name |-> names[i]] :
     i \in {j \in DOMAIN names : \A t \in table : t.name # names[j]}}

\* rows a bulk insert of names adds to the tags table (fresh ids)
InsertedTags(table, names) ==
  {[id |-> Cardinality(table) + i, name |-> names[i]] : i \in DOMAIN names}

\* the store accepts the bulk insert unless tags.name is unique and a name
\* is already in the table or is given twice
TagInsertAccepted(table, names) ==
  schema.tagNameUnique =>
     /\ NoDuplicates(names)
     /\ \A t \in table : t.name \notin SeqToSet(names)

\* (mutant of Relations: the rows name the first article of the store)
RelationsOfFirstArticle(articleId, rows) ==
  {[article_id |-> 1, tag_id |-> t.id] : t \in rows}

\* existingTags.map((tag) => ({ article_id, tag_id: tag.id }))
Relations(articleId, rows) ==
  {[article_id |-> articleId, tag_id |-> t.id] : t \in rows}

\* the store accepts the association rows unless it has a primary key on
\* (article_id, tag_id) and one of the rows is already there
RelInsertAccepted(table, rows) ==
  schema.assocPk => \A r \in rows : ~BagIn(r, table)

RowsOfArticle(table, id) == {r \in BagToSet(table) : r.article_id = id}

\* (mutant of DeleteRelations: the filter matches no row)
DeleteRelationsOfNone(table, id) == table

\* supabase.from("article_tags").delete().eq("article_id", id)
DeleteRelations(table, id) ==
  LET keep == {r \in BagToSet(table) : r.article_id # id}
  IN  [r \in keep |-> table[r]]

\* the ids of the rows of a table
IdsOf(rows) == {a.id : a \in rows}

\* supabase.from("articles").upsert(row)
UpsertArticle(table, row) == {a \in table : a.id # row.id} \cup {row}

\* supabase.from("articles").update({title, ...}).eq("id", id)
UpdateArticle(table, id, title) ==
  {IF a.id = id THEN [a EXCEPT !.title = title] ELSE a : a \in table}

Issue(p, op) == Append(calls[p], [op |-> op, result |-> "pending"])

Returned(p, result) ==
  [calls[p] EXCEPT ![Len(calls[p])] = [@ EXCEPT !.result = result]]

\* the call awaited by p returned with `result`, and p issues `op` next
ReturnedThenIssue(p, result, op) ==
  Append(Returned(p, result), [op |-> op, result |-> "pending"])

----------------------------------------------------------------------------
\* Text: a string is the sequence of its characters.  The operators below are
\* the string methods and regular expressions the handlers use.

IsSpace(c) == c \in {" ", "\n", "\t", "\r"}

Min(S) == CHOOSE x \in S : \A y \in S : x <= y

Max(S) == CHOOSE x \in S : \A y \in S : x >= y

\* s.trim()
Trim(s) ==
  LET solid == {i \in DOMAIN s : ~IsSpace(s[i])}
  IN  IF solid = {} THEN <<>> ELSE SubSeq(s, Min(solid), Max(solid))

\* the pieces of s between the positions in `at`, which are left out
SplitAt(s, at) ==
  LET cut(k) == IF k = 0 THEN 0
                ELSE IF k = Cardinality(at) + 1 THEN Len(s) + 1
                ELSE CHOOSE i \in at : Cardinality({j \in at : j <= i}) = k
  IN  [k \in 1..(Cardinality(at) + 1) |->
         SubSeq(s, cut(k - 1) + 1, cut(k) - 1)]

\* s.split(ch) for a separator of one character
Split(s, ch) == SplitAt(s, {i \in DOMAIN s : s[i] = ch})

StartsWith(s, p) == Len(s) >= Len(p) /\ SubSeq(s, 1, Len(p)) = p

EndsWith(s, p) ==
  Len(s) >= Len(p) /\ SubSeq(s, Len(s) - Len(p) + 1, Len(s)) = p

\* s with every maximal run of characters in `chars` replaced by `by`
\* (s.replace(/[chars]+/g, by))
ReplaceRuns(s, chars, by) ==
  LET keep == {i \in DOMAIN s : s[i] \notin chars \/ i = 1 \/ s[i - 1] \notin chars}
      nth(k) == CHOOSE i \in keep : Cardinality({j \in keep : j <= i}) = k
  IN  [k \in 1..Cardinality(keep) |->
         IF s[nth(k)] \in chars THEN by ELSE s[nth(k)]]

\* Number.prototype.toString for a natural number
RECURSIVE Digits(_)
Digits(n) ==
  LET d == <<"0", "1", "2", "3", "4", "5", "6", "7", "8", "9">>[(n % 10) + 1]
  IN  IF n < 10 THEN <<d>> ELSE Append(Digits(n \div 10), d)

----------------------------------------------------------------------------
\* JSON.parse and JSON.stringify, for the values a tags line can hold: a
\* string (with the escapes \" \\ \/ \n \t \r \f), an integer, null, true,
\* false, or a flat array of those.  A JavaScript value is [kind, text, items].

JsValue(kind, text, items) == [kind |-> kind, text |-> text, items |-> items]

EmptyList == JsValue("array", <<>>, <<>>)

DigitChars == {"0", "1", "2", "3", "4", "5", "6", "7", "8", "9"}

\* the character an escape sequence \c of a string literal stands for
Escapes == [c \in {"\"", "\\", "/", "n", "t", "r", "f"} |->
              CASE c = "n" -> "\n" [] c = "t" -> "\t" [] c = "r" -> "\r"
                [] c = "f" -> "\f" [] OTHER -> c]

\* the text between the quotes of a string literal, unescaped; ok = FALSE if
\* it holds a bare quote, a control character or a bad escape
RECURSIVE Unescape(_)
Unescape(t) ==
  IF t = <<>> THEN [ok |-> TRUE, text |-> <<>>]
  ELSE IF t[1] = "\\"
    THEN IF Len(t) >= 2 /\ t[2] \in DOMAIN Escapes
           THEN LET rest == Unescape(SubSeq(t, 3, Len(t)))
                IN  [ok |-> rest.ok, text |-> <<Escapes[t[2]]>> \o rest.text]
           ELSE [ok |-> FALSE, text |-> <<>>]
  ELSE IF t[1] \in {"\"", "\n", "\t", "\r", "\f"}
    THEN [ok |-> FALSE, text |-> <<>>]
  ELSE LET rest == Unescape(Tail(t))
       IN  [ok |-> rest.ok, text |-> <<t[1]>> \o rest.text]

IsStringLiteral(t) ==
  /\ Len(t) >= 2
  /\ t[1] = "\"" /\ t[Len(t)] = "\""
  /\ Unescape(SubSeq(t, 2, Len(t) - 1)).ok

IsNumberLiteral(t) ==
  LET u == IF Len(t) > 0 /\ t[1] = "-" THEN Tail(t) ELSE t
  IN  /\ Len(u) >= 1
      /\ \A i \in DOMAIN u : u[i] \in DigitChars
      /\ Len(u) > 1 => u[1] # "0"

IsScalarLiteral(t) ==
  \/ IsStringLiteral(t)
  \/ IsNumberLiteral(t)
  \/ t \in { <<"n", "u", "l", "l">>, <<"t", "r", "u", "e">>, <<"f", "a", "l",
      "s", "e">> }

ScalarValue(t) ==
  IF IsStringLiteral(t)
    THEN JsValue("string", Unescape(SubSeq(t, 2, Len(t) - 1)).text, <<>>)
  ELSE IF IsNumberLiteral(t) THEN JsValue("number", t, <<>>)
  ELSE IF t = <<"n", "u", "l", "l">> THEN JsValue("null", <<>>, <<>>)
  ELSE JsValue("boolean", t, <<>>)

\* the elements of an array literal: the text between the brackets, cut at
\* the commas that are outside a string
ArrayElements(inner) ==
  LET escaped(j) ==
        Max({k \in 0..(j - 1) :
               \A m \in (j - k)..(j - 1) : inner[m] = "\\"}) % 2 = 1
      quotes(i) == Cardinality({j \in 1..i : inner[j] = "\"" /\ ~escaped(j)})
      commas == {i \in DOMAIN inner : inner[i] = "," /\ quotes(i) % 2 = 0}
      parts == SplitAt(inner, commas)
  IN  IF Trim(inner) = <<>> THEN <<>>
      ELSE [k \in DOMAIN parts |-> Trim(parts[k])]

\* JSON.parse(text): ok = FALSE where it throws a SyntaxError
JsonParse(text) ==
  LET t == Trim(text)
      elements == ArrayElements(SubSeq(t, 2, Len(t) - 1))
  IN  IF IsScalarLiteral(t)
        THEN [ok |-> TRUE, value |-> ScalarValue(t)]
      ELSE IF /\ Len(t) >= 2 /\ t[1] = "[" /\ t[Len(t)] = "]"
              /\ \A k \in DOMAIN elements : IsScalarLiteral(elements[k])
        THEN [ok |-> TRUE,
              value |-> JsValue("array", <<>>,
                          [k \in DOMAIN elements |-> ScalarValue(elements[k])])]
      ELSE [ok |-> FALSE, value |-> EmptyList]

\* the truthiness of a JavaScript value (the left side of ||)
Truthy(v) ==
  CASE v.kind = "string" -> v.text # <<>>
    [] v.kind = "number" -> v.text \notin { <<"0">>, <<"-", "0">> }
    [] v.kind = "null" -> FALSE
    [] v.kind = "undefined" -> FALSE
    [] v.kind = "boolean" -> v.text = <<"t", "r", "u", "e">>
    [] OTHER -> TRUE

\* a string as JSON.stringify writes it
Quote(text) ==
  LET esc(c) == CASE c = "\"" -> <<"\\", "\"">>
                  [] c = "\\" -> <<"\\", "\\">>
                  [] c = "\n" -> <<"\\", "n">>
                  [] c = "\t" -> <<"\\", "t">>
                  [] c = "\r" -> <<"\\", "r">>
                  [] c = "\f" -> <<"\\", "f">>
                  [] OTHER -> <<c>>
      RECURSIVE Body(_)
      Body(t) == IF t = <<>> THEN <<>> ELSE esc(t[1]) \o Body(Tail(t))
  IN  <<"\"">> \o Body(text) \o <<"\"">>

\* (mutant of JsonStringify: a string is written between quotes as it is)
JsonStringifyUnescaped(v) ==
  LET RECURSIVE Items(_)
      Items(items) ==
        IF items = <<>> THEN <<>>
        ELSE (IF Head(items).kind = "string"
                THEN <<"\"">> \o Head(items).text \o <<"\"">>
                ELSE Head(items).text)
             \o (IF Len(items) > 1 THEN <<",">> ELSE <<>>) \o Items(Tail(items))
  IN  CASE v.kind = "string" -> <<"\"">> \o v.text \o <<"\"">>
        [] v.kind = "null" -> <<"n", "u", "l", "l">>
        [] v.kind = "array" -> <<"[">> \o Items(v.items) \o <<"]">>
        [] OTHER -> v.text

\* JSON.stringify(v) (an array's items are scalars)
JsonStringify(v) ==
  LET scalar(w) == CASE w.kind = "string" -> Quote(w.text)
                     [] w.kind = "null" -> <<"n", "u", "l", "l">>
                     [] OTHER -> w.text
      RECURSIVE Items(_)
      Items(items) ==
        IF items = <<>> THEN <<>>
        ELSE scalar(Head(items))
             \o (IF Len(items) > 1 THEN <<",">> ELSE <<>>) \o Items(Tail(items))
  IN  IF v.kind = "array" THEN <<"[">> \o Items(v.items) \o <<"]">>
      ELSE scalar(v)

\* the array of the strings of a list of names
ArrayOf(names) ==
  JsValue("array", <<>>, [k \in DOMAIN names |-> JsValue("string", names[k],
      <<>>)])

----------------------------------------------------------------------------
\* parseFrontmatter, generateSlug, estimateReadTime

Dashes == <<"-", "-", "-">>

\* where a `---\s*\n` can end whose dashes end at position e
DelimiterEnds(s, e) ==
  {d \in (e + 1)..Len(s) :
     s[d] = "\n" /\ \A k \in (e + 1)..(d - 1) : IsSpace(s[k])}

\* content.match(/^---\s*\n([\s\S]*?)\n---\s*\n([\s\S]*)$/): the first
\* quantifier is greedy and gives back, the group is lazy, the quantifier of
\* the closing delimiter is greedy
FrontmatterMatch(content) ==
  LET n == Len(content)
      opens == IF StartsWith(content, Dashes) THEN DelimiterEnds(content, 3)
                                              ELSE {}
      closes(e) == {c \in (e + 1)..(n - 3) :
                      /\ content[c] = "\n"
                      /\ SubSeq(content, c + 1, c + 3) = Dashes
                      /\ DelimiterEnds(content, c + 3) # {}}
      usable == {e \in opens : closes(e) # {}}
  IN  IF usable = {}
        THEN [matched |-> FALSE, frontmatterStr |-> <<>>,
            mainContent |-> <<>>]
        ELSE LET e == Max(usable)
                 c == Min(closes(e))
                 d == Max(DelimiterEnds(content, c + 3))
             IN  [matched |-> TRUE,
                  frontmatterStr |-> SubSeq(content, e + 1, c - 1),
                  mainContent |-> SubSeq(content, d + 1, n)]

\* (mutant of KeyOf: the key is trimmed before it is compared)
KeyOfTrimmed(line) == Trim(Split(line, ":")[1])

\* const [key, ...valueParts] = line.split(":")
KeyOf(line) == Split(line, ":")[1]

\* valueParts.join(":").trim()
ValueOf(line) ==
  LET colons == {i \in DOMAIN line : line[i] = ":"}
  IN  IF colons = {} THEN <<>>
      ELSE Trim(SubSeq(line, Min(colons) + 1, Len(line)))

\* (mutant of Unquote: the quotes stay)
UnquoteNothing(value) == value

\* value.replace(/^"|"$/g, "")
Unquote(value) ==
  LET a == IF Len(value) > 0 /\ value[1] = "\"" THEN Tail(value) ELSE value
  IN  IF Len(a) > 0 /\ a[Len(a)] = "\"" THEN SubSeq(a, 1, Len(a) - 1) ELSE a

\* the frontmatter object before the loop over the lines
DefaultFrontmatter ==
  [isNull |-> FALSE, title |-> <<>>, excerpt |-> <<>>, category |-> <<>>,
   date |-> <<>>, tags |-> EmptyList]

\* frontmatter: null
NullFrontmatter == [DefaultFrontmatter EXCEPT !.isNull = TRUE]

\* one pass of the loop body
ParseLine(frontmatter, line) ==
  LET key == KeyOf(line)
      value == ValueOf(line)
      parsed == JsonParse(value)
  IN  IF key = <<"t", "i", "t", "l", "e">> THEN [frontmatter EXCEPT !.title = Unquote(value)]
      ELSE IF key = <<"e", "x", "c", "e", "r", "p",
          "t">> THEN [frontmatter EXCEPT !.excerpt = Unquote(value)]
      ELSE IF key = <<"c", "a", "t", "e", "g", "o", "r",
          "y">> THEN [frontmatter EXCEPT !.category = Unquote(value)]
      ELSE IF key = <<"d", "a", "t", "e">> THEN [frontmatter EXCEPT !.date = Unquote(value)]
      ELSE IF key = <<"t", "a", "g", "s">>
        THEN [frontmatter EXCEPT !.tags = IF parsed.ok THEN parsed.value
                                                       ELSE EmptyList]
      ELSE frontmatter

\* for (const line of lines) { ... }
RECURSIVE ParseLines(_, _)
ParseLines(frontmatter, lines) ==
  IF lines = <<>> THEN frontmatter
  ELSE ParseLines(ParseLine(frontmatter, Head(lines)), Tail(lines))

\* (mutant of parseFrontmatter: the text without a block is trimmed too)
parseFrontmatterTrimmed(content) ==
  LET m == FrontmatterMatch(content)
  IN  IF ~m.matched
        THEN [content |-> Trim(content), frontmatter |-> NullFrontmatter]
        ELSE [content |-> Trim(m.mainContent),
              frontmatter |-> ParseLines(DefaultFrontmatter,
                                         Split(m.frontmatterStr, "\n"))]

parseFrontmatter(content) ==
  LET m == FrontmatterMatch(content)
  IN  IF ~m.matched
        THEN [content |-> content, frontmatter |-> NullFrontmatter]
        ELSE [content |-> Trim(m.mainContent),
              frontmatter |-> ParseLines(DefaultFrontmatter,
                                         Split(m.frontmatterStr, "\n"))]

UpperCase == <<"A", "B", "C", "D", "E", "F", "G", "H", "I", "J", "K", "L",
    "M", "N", "O", "P", "Q", "R", "S", "T", "U", "V", "W", "X", "Y", "Z">>

LowerCase == <<"a", "b", "c", "d", "e", "f", "g", "h", "i", "j", "k", "l",
    "m", "n", "o", "p", "q", "r", "s", "t", "u", "v", "w", "x", "y", "z">>

\* c.toLowerCase()
ToLower(c) ==
  IF \E i \in DOMAIN UpperCase : UpperCase[i] = c
    THEN LowerCase[CHOOSE i \in DOMAIN UpperCase : UpperCase[i] = c]
    ELSE c

\* /[a-z0-9\s-]/
SlugChar(c) ==
  \/ c \in {LowerCase[i] : i \in DOMAIN LowerCase}
  \/ c \in DigitChars
  \/ IsSpace(c)
  \/ c = "-"

\* (mutant of generateSlug: toLowerCase() is left out)
generateSlugCaseKept(title) ==
  LET kept == SelectSeq(title, SlugChar)
      hyphenated == ReplaceRuns(kept, {" ", "\n", "\t", "\r"}, "-")
      collapsed == ReplaceRuns(hyphenated, {"-"}, "-")
  IN  Trim(collapsed)

generateSlug(title) ==
  LET lower == [i \in DOMAIN title |-> ToLower(title[i])]
      kept == SelectSeq(lower, SlugChar)
      hyphenated == ReplaceRuns(kept, {" ", "\n", "\t", "\r"}, "-")
      collapsed == ReplaceRuns(hyphenated, {"-"}, "-")
  IN  Trim(collapsed)

wordsPerMinute == 200

\* content.split(/\s+/).length: the separators are the maximal runs of
\* whitespace, and n separators leave n + 1 pieces (empty ones included)
WordCount(content) ==
  Cardinality({i \in DOMAIN content :
                 IsSpace(content[i]) /\ (i = 1 \/ ~IsSpace(content[i - 1]))}) + 1

\* (mutant of estimateReadTime: Math.floor for Math.ceil)
estimateReadTimeFloor(content) ==
  Digits(WordCount(content) \div wordsPerMinute) \o <<" ", "m", "i", "n",
      " ", "r", "e", "a", "d">>

estimateReadTime(content) ==
  LET wordCount == WordCount(content)
      minutes == (wordCount + wordsPerMinute - 1) \div wordsPerMinute
  IN  Digits(minutes) \o <<" ", "m", "i", "n", " ", "r", "e", "a", "d">>

----------------------------------------------------------------------------
\* What the endpoint derives from the request body (index.ts 131-154)

\* the filename field of the request body: absent, or a string
NoFilename == [present |-> FALSE, text |-> <<>>]

Filename(t) == [present |-> TRUE, text |-> t]

\* name.replace(/\.(md|markdown)$/, "")
StripExtension(name) ==
  IF EndsWith(name, <<".", "m", "a", "r", "k", "d", "o", "w",
      "n">>) THEN SubSeq(name, 1, Len(name) - 9)
  ELSE IF EndsWith(name, <<".", "m", "d">>) THEN SubSeq(name, 1,
      Len(name) - 3)
  ELSE name

NotDerived ==
  [done |-> FALSE, frontmatter |-> NullFrontmatter, content |-> <<>>,
   title |-> <<>>, excerpt |-> <<>>, category |-> <<>>, date |-> <<>>,
   tags |-> EmptyList, slug |-> <<>>, readTime |-> <<>>]

\* (mutant of Derivation: ?? for ||, so an empty value is not replaced)
DerivationNullish(md, name, now) ==
  LET parsed == parseFrontmatter(md)
      frontmatter == parsed.frontmatter
      stripped == IF name.present THEN StripExtension(name.text) ELSE <<>>
      title == IF ~frontmatter.isNull THEN frontmatter.title
               ELSE IF name.present THEN stripped
               ELSE <<"U", "n", "t", "i", "t", "l", "e", "d", " ", "A", "r",
                   "t", "i", "c", "l", "e">>
  IN  [done |-> TRUE,
       frontmatter |-> frontmatter,
       content |-> parsed.content,
       title |-> title,
       excerpt |-> IF ~frontmatter.isNull THEN frontmatter.excerpt
                   ELSE <<"N", "o", " ", "e", "x", "c", "e", "r", "p", "t",
                       " ", "p", "r", "o", "v", "i", "d", "e", "d">>,
       category |-> IF ~frontmatter.isNull THEN frontmatter.category
                    ELSE <<"U", "n", "c", "a", "t", "e", "g", "o", "r", "i",
                        "z", "e", "d">>,
       date |-> IF ~frontmatter.isNull THEN frontmatter.date ELSE now,
       tags |-> IF ~frontmatter.isNull THEN frontmatter.tags ELSE EmptyList,
       slug |-> generateSlug(title),
       readTime |-> estimateReadTime(parsed.content)]

\* const { content, frontmatter } = parseFrontmatter(markdown); title = ...;
\* ...; readTime = estimateReadTime(content).  now: new Date().toISOString()
Derivation(md, name, now) ==
  LET parsed == parseFrontmatter(md)
      frontmatter == parsed.frontmatter
      stripped == IF name.present THEN StripExtension(name.text) ELSE <<>>
      title == IF ~frontmatter.isNull /\ frontmatter.title # <<>>
                 THEN frontmatter.title
               ELSE IF stripped # <<>> THEN stripped
               ELSE <<"U", "n", "t", "i", "t", "l", "e", "d", " ", "A", "r",
                   "t", "i", "c", "l", "e">>
  IN  [done |-> TRUE,
       frontmatter |-> frontmatter,
       content |-> parsed.content,
       title |-> title,
       excerpt |-> IF ~frontmatter.isNull /\ frontmatter.excerpt # <<>>
                     THEN frontmatter.excerpt ELSE <<"N", "o", " ", "e", "x",
                         "c", "e", "r", "p", "t", " ", "p", "r", "o", "v",
                         "i", "d", "e", "d">>,
       category |-> IF ~frontmatter.isNull /\ frontmatter.category # <<>>
                      THEN frontmatter.category ELSE <<"U", "n", "c", "a",
                          "t", "e", "g", "o", "r", "i", "z", "e", "d">>,
       date |-> IF ~frontmatter.isNull /\ frontmatter.date # <<>>
                  THEN frontmatter.date ELSE now,
       tags |-> IF ~frontmatter.isNull /\ Truthy(frontmatter.tags)
                  THEN frontmatter.tags ELSE EmptyList,
       slug |-> generateSlug(title),
       readTime |-> estimateReadTime(parsed.content)]

----------------------------------------------------------------------------
\* Writing the frontmatter header: the editor's generateFrontmatter and the
\* uploader's fullContent

\* the header lines between the two `---` lines, with the date and the tags
\* text as given
Header(title, excerpt, category, date, tagsText) ==
  <<"-", "-", "-", "\n", "t", "i", "t", "l", "e", ":", " ",
      "\"">> \o title \o <<"\"", "\n", "e", "x", "c", "e", "r", "p", "t",
      ":", " ", "\"">> \o excerpt
    \o <<"\"", "\n", "c", "a", "t", "e", "g", "o", "r", "y", ":", " ",
        "\"">> \o category \o <<"\"", "\n", "d", "a", "t", "e", ":", " ",
        "\"">> \o date
    \o <<"\"", "\n", "t", "a", "g", "s", ":", " ">> \o tagsText \o <<"\n",
        "-", "-", "-", "\n", "\n">>

\* generateFrontmatter(article); now: new Date().toISOString()
generateFrontmatter(a, now) ==
  Header(a.title, a.excerpt, a.category,
         IF a.date # <<>> THEN a.date ELSE now,
         JsonStringify(IF Truthy(a.tags) THEN a.tags ELSE EmptyList))

\* saveToDatabase: const fullContent = file.frontmatter ? `---...` : file.content
FullContent(file) ==
  IF file.frontmatter.isNull THEN file.content
  ELSE Header(file.frontmatter.title, file.frontmatter.excerpt,
              file.frontmatter.category, file.frontmatter.date,
              JsonStringify(file.frontmatter.tags))
         \o file.content

----------------------------------------------------------------------------
\* The documents and filenames the derivation is run on

\* Most lines of a frontmatter block.
MaxLines == 2

\* Longest title that is varied character by character.
MaxTitleLen == 4

FrontmatterLines ==
  { <<"t", "i", "t", "l", "e", ":", " ", "\"", "T", "\"">>,
    <<"t", "i", "t", "l", "e", ":", " ", "a", ":", "b">>,
    <<"t", "i", "t", "l", "e", ":">>,
    <<"t", "i", "t", "l", "e", " ", ":", " ", "T">>,
    <<" ", "t", "i", "t", "l", "e", ":", " ", "T">>,
    <<"e", "x", "c", "e", "r", "p", "t", ":", " ", "\"", "E", "\"">>,
    <<"c", "a", "t", "e", "g", "o", "r", "y", ":", " ", " ", "\"", "C", "\"",
        " ", "d", "\"", " ">>,
    <<"d", "a", "t", "e", ":", " ", "\"", "2", "0", "2", "4", "-", "0", "1",
        "-", "0", "1", "\"">>,
    <<"t", "a", "g", "s", ":", " ", "[", "\"", "x", "\"", ",", "\"", "y",
        "\"", "]">>,
    <<"t", "a", "g", "s", ":", " ", "[", "x", "]">>,
    <<"t", "a", "g", "s", ":", " ", "\"", "a", "b", "\"">>,
    <<"t", "a", "g", "s", ":", " ", "5">>,
    <<"t", "a", "g", "s", ":">>,
    <<"a", "u", "t", "h", "o", "r", ":", " ", "m", "e">> }

LineLists == UNION {[1..n -> FrontmatterLines] : n \in 0..MaxLines}

\* lines.join("\n")
RECURSIVE Join(_)
Join(lines) ==
  IF lines = <<>> THEN <<>>
  ELSE IF Len(lines) = 1 THEN lines[1]
  ELSE lines[1] \o <<"\n">> \o Join(Tail(lines))

Openers == { <<"-", "-", "-", "\n">>, <<"-", "-", "-", " ", "\n", "\n">>,
    <<>> }

Closers == { <<"\n", "-", "-", "-", "\n">>, <<"\n", "-", "-", "-">>,
    <<"\n">> }

Bodies == { <<>>, <<"\n", "B", "o", "d", "y", " ", "t", "e", "x", "t", " ",
    "h", "e", "r", "e", ".">>, <<" ", "a", " ", " ", "b", " ", "\n">> }

\* n words separated by single spaces
Words(n) == [i \in 1..(2 * n - 1) |-> IF i % 2 = 1 THEN "w" ELSE " "]

\* the document of the end-to-end scenario
ScenarioDocument ==
  <<"-", "-", "-", "\n", "t", "i", "t", "l", "e", ":", " ", "\"", "T", "\"",
      "\n", "e", "x", "c", "e", "r", "p", "t", ":", " ", "\"", "E", "\"",
      "\n", "c", "a", "t", "e", "g", "o", "r", "y", ":", " ", "\"", "C",
      "\"", "\n", "d", "a", "t", "e", ":", " ", "\"", "2", "0", "2", "4",
      "-", "0", "1", "-", "0", "1", "\"", "\n", "t", "a", "g", "s", ":", " ",
      "[", "\"", "x", "\"", ",", "\"", "y", "\"", "]", "\n", "-", "-", "-",
      "\n", "\n", "B", "o", "d", "y", " ", "t", "e", "x", "t", " ", "h", "e",
      "r", "e", ".">>

ScenarioFilename == Filename(<<"t", "e", "s", "t", ".", "m", "d">>)

Documents ==
  {o \o Join(ls) \o c \o b :
     o \in Openers, ls \in LineLists, c \in Closers, b \in Bodies} \ {<<>>}

LongDocuments ==
  { Words(200), Words(201), Words(400), Words(401),
    <<"-", "-", "-", "\n", "t", "i", "t", "l", "e", ":", " ", "T", "\n", "-",
        "-", "-", "\n">> \o Words(400) \o <<" ", "\n">> }

TitleChars == {"A", "b", "1", " ", "-", "!"}

TitleTexts == UNION {[1..n -> TitleChars] : n \in 0..MaxTitleLen}

Filenames ==
  { NoFilename, ScenarioFilename, Filename(<<>>), Filename(<<".", "m", "d">>),
    Filename(<<"n", "o", "t", "e", "s", ".", "m", "a", "r", "k", "d", "o",
        "w", "n">>), Filename(<<"n", "o", "t", "e", "s", ".", "t", "x",
        "t">>),
    Filename(<<"a", ".", "m", "d", ".", "m", "d">>), Filename(<<"H", "e",
        "l", "l", "o", ",", " ", "W", "o", "r", "l", "d", "!", " ", " ", "T",
        "e", "s", "t", ".", "m", "d">>) }

\* request bodies: markdown (a non-empty string) and filename
Inputs ==
  {[markdown |-> d, filename |-> ScenarioFilename] : d \in Documents}
  \cup
  {[markdown |-> d, filename |-> f] :
     d \in LongDocuments \cup {ScenarioDocument, <<"-", "-", "-", "\n", "t",
         "i", "t", "l", "e", ":", "\n", "-", "-", "-", "\n", "x">>, <<"x">>},
     f \in Filenames}
  \cup
  {[markdown |-> <<"x">>, filename |-> Filename(t \o <<".", "m",
      "d">>)] : t \in TitleTexts}

Clock == { <<"2", "0", "2", "5", "-", "0", "6", "-", "0", "1", "T", "0", "0",
    ":", "0", "0", ":", "0", "0", ".", "0", "0", "0", "Z">>, <<"2", "0", "2",
    "5", "-", "0", "6", "-", "0", "2", "T", "0", "0", ":", "0", "0", ":",
    "0", "0", ".", "0", "0", "0", "Z">> }

----------------------------------------------------------------------------
\* State of the browser pages: the uploader (FileUploader) and the editor
\* (Editor, with the MetadataEditor's tag input)

\* article === null
NullArticle ==
  [isNull |-> TRUE, id |-> 0, title |-> <<>>, slug |-> <<>>, excerpt |-> <<>>,
   category |-> <<>>, read_time |-> <<>>, status |-> "",
       markdown_content |-> <<>>,
   html_content |-> "", date |-> <<>>, tags |-> JsValue("undefined", <<>>,
       <<>>)]

\* saveAllFiles is not running
NoSaveAll == [pendingFiles |-> <<>>, i |-> 0, at |-> "idle"]

\* an article object of the editor page
PageArticle(id, title, excerpt, category, date, body, tagsProperty) ==
  [isNull |-> FALSE, id |-> id, title |-> title, slug |-> generateSlug(title),
   excerpt |-> excerpt, category |-> category,
   read_time |-> estimateReadTime(body), status |-> "draft",
   markdown_content |-> body, html_content |-> "null", date |-> date,
   tags |-> tagsProperty]

\* a ProcessedFile of the uploader
ProcessedFile(name, content, frontmatter, status) ==
  [name |-> name, content |-> content, frontmatter |-> frontmatter,
   status |-> status]

\* no page is open
InitPage ==
  /\ files = <<>>
  /\ fetches = <<>>
  /\ isProcessing = FALSE
  /\ saveAll = NoSaveAll
  /\ article = NullArticle
  /\ articleTags = <<>>
  /\ newTag = <<>>

----------------------------------------------------------------------------
\* Initial store: one published article tagged "x".

InitArticles ==
  {[id |-> 1, title |-> "t0", status |-> "published", html_content |-> "html"]}

InitTags == {[id |-> 1, name |-> "x"]}

InitArticleTags == SetToBag({[article_id |-> 1, tag_id |-> 1]})

InitHandlers ==
  /\ articles = InitArticles
  /\ tags = InitTags
  /\ article_tags = InitArticleTags
  /\ nextArticleId = 2
  /\ schema \in [tagNameUnique : BOOLEAN, assocPk : BOOLEAN]
  /\ pc = [p \in Procs |-> "idle"]
  /\ req = [p \in Runs |-> NoRequest]
  /\ save = [p \in Savers |-> NoSave]
  /\ local = [p \in Procs |-> NoLocal]
  /\ calls = [p \in Procs |-> <<>>]
  /\ resp = [p \in Runs |-> <<>>]
  /\ outcome = [p \in Savers |-> "none"]
  /\ saves = 0

\* no request body is under derivation
Init ==
  /\ InitHandlers
  /\ markdown = <<>>
  /\ filename = NoFilename
  /\ derived = NotDerived
  /\ InitPage

----------------------------------------------------------------------------
\* How a handler goes on after the call it awaited has returned

CorsResponse == [status |-> 200, success |-> FALSE, error |-> "", article |-> 0,
                 articleStatus |-> "", title |-> "", tags |-> <<>>]

\* (mutant of ErrorResponse: the status option is left out, so it is 200)
ErrorResponseNoStatus(status, msg) ==
  [status |-> 200, success |-> FALSE, error |-> msg, article |-> 0,
   articleStatus |-> "", title |-> "", tags |-> <<>>]

ErrorResponse(status, msg) ==
  [status |-> status, success |-> FALSE, error |-> msg, article |-> 0,
   articleStatus |-> "", title |-> "", tags |-> <<>>]

SuccessResponse(row, title, tagList) ==
  [status |-> 200, success |-> TRUE, error |-> "", article |-> row.id,
   articleStatus |-> row.status, title |-> title, tags |-> tagList]

\* return new Response(...)
Respond(r, response) ==
  /\ resp' = [resp EXCEPT ![r] = Append(@, response)]
  /\ pc' = [pc EXCEPT ![r] = "done"]
  /\ UNCHANGED outcome

\* the awaited call returned without error and the handler awaits `op` next
Continue(p, op) ==
  /\ calls' = [calls EXCEPT ![p] = ReturnedThenIssue(p, "ok", op)]
  /\ pc' = [pc EXCEPT ![p] = op]
  /\ UNCHANGED <<resp, outcome>>

\* (mutant of Throw: the failed call is issued again)
ThrowRetry(p, result) ==
  /\ calls' = [calls EXCEPT ![p] = ReturnedThenIssue(p, result, pc[p])]
  /\ UNCHANGED <<pc, resp, outcome>>

\* the awaited call returned an error: `throw`, caught by the handler's catch
\* (endpoint: 500 response; editor and settings: setError; manager: log)
Throw(p, result) ==
  /\ calls' = [calls EXCEPT ![p] = Returned(p, result)]
  /\ IF p \in Runs
       THEN Respond(p, ErrorResponse(500, "backend error"))
       ELSE /\ outcome' = [outcome EXCEPT ![p] = "error"]
            /\ pc' = [pc EXCEPT ![p] = "done"]
            /\ UNCHANGED resp

\* the last call of the tag step returned without error
Succeed(p, row) ==
  IF p \in Runs
    THEN /\ calls' = [calls EXCEPT ![p] = Returned(p, "ok")]
         /\ Respond(p, SuccessResponse(row, req[p].title, local[p].tags))
    ELSE IF save[p].handler = "replace"
    THEN Continue(p, "refresh")
    ELSE /\ calls' = [calls EXCEPT ![p] = Returned(p, "ok")]
         /\ outcome' = [outcome EXCEPT ![p] = "saved"]
         /\ pc' = [pc EXCEPT ![p] = "done"]
         /\ UNCHANGED resp

----------------------------------------------------------------------------
\* The process-markdown endpoint (Deno.serve handler)

\* The handler's code from the request q to its first await of the store.
\* envOk: whether SUPABASE_URL and SUPABASE_SERVICE_ROLE_KEY are set.
Accept(r, q, envOk) ==
  /\ req' = [req EXCEPT ![r] = q]
  /\ IF q.method = "OPTIONS"
       THEN Respond(r, CorsResponse) /\ UNCHANGED <<local, calls>>
     ELSE IF ~q.json
       THEN /\ Respond(r, ErrorResponse(500, "Failed to process markdown"))
            /\ UNCHANGED <<local, calls>>
     ELSE IF ~MarkdownAccepted(q.markdown)
       THEN /\ Respond(r, ErrorResponse(400, "Markdown content is required"))
            /\ UNCHANGED <<local, calls>>
     ELSE IF ~envOk
       THEN /\ Respond(r, ErrorResponse(500, "Missing Supabase environment variables"))
            /\ UNCHANGED <<local, calls>>
     ELSE /\ local' = [local EXCEPT ![r].tags = q.tags]
          /\ calls' = [calls EXCEPT ![r] = Issue(r, "articleInsert")]
          /\ pc' = [pc EXCEPT ![r] = "articleInsert"]
          /\ UNCHANGED <<resp, outcome>>

\* A request arrives; the handler runs up to its first await of the store.
Receive(r) ==
  /\ pc[r] = "idle"
  /\ \E q \in Requests, envOk \in BOOLEAN : Accept(r, q, envOk)
  /\ UNCHANGED <<store, schema, save, saves>>
  /\ UNCHANGED document
  /\ UNCHANGED page

\* articles.insert(row).select().single() returns
InsertArticle(r, row) ==
  /\ pc[r] = "articleInsert"
  /\ \E ok \in BOOLEAN :
       IF ~ok
         THEN Throw(r, "fault") /\ UNCHANGED <<store, local>>
         ELSE /\ articles' = articles \cup {row}
              /\ nextArticleId' = nextArticleId + 1
              /\ local' = [local EXCEPT ![r].article = row]
              /\ UNCHANGED <<tags, article_tags>>
              /\ IF Len(local[r].tags) > 0
                   THEN Continue(r, "tagSelect")
                   ELSE Succeed(r, row)
  /\ UNCHANGED <<schema, req, save, saves>>

\* articles.insert(articleData).select().single() returns
ArticleInsert(r) ==
  /\ InsertArticle(r, ArticleData(nextArticleId, req[r].title))
  /\ UNCHANGED document
  /\ UNCHANGED page

----------------------------------------------------------------------------
\* Tag reconciliation, written out in the endpoint and in every save handler

\* tags.select("id, name").in("name", tags) returns
TagSelect(p) ==
  /\ pc[p] = "tagSelect"
  /\ \E ok \in BOOLEAN :
       IF ~ok
         THEN Throw(p, "fault") /\ UNCHANGED local
         ELSE LET existing == SelectTagsIn(tags, local[p].tags)
                  new == NewTags(local[p].tags, existing)
              IN  /\ local' = [local EXCEPT ![p].existingTags = existing,
                                            ![p].newTags = new]
                  /\ IF Len(new) > 0
                       THEN Continue(p, "tagInsert")
                       ELSE Continue(p, "relInsert")
  /\ UNCHANGED <<store, schema, req, save, saves>>
  /\ UNCHANGED document
  /\ UNCHANGED page

\* (mutant of TagInsert: `if (insertError) throw insertError` is left out)
TagInsertIgnoreError(p) ==
  /\ pc[p] = "tagInsert"
  /\ \E ok \in BOOLEAN :
       IF ~ok \/ ~TagInsertAccepted(tags, local[p].newTags)
         THEN /\ calls' = [calls EXCEPT ![p] = ReturnedThenIssue(
                    p, IF ok THEN "rejected" ELSE "fault", "relInsert")]
              /\ pc' = [pc EXCEPT ![p] = "relInsert"]
              /\ UNCHANGED <<tags, local, resp, outcome>>
         ELSE LET inserted == InsertedTags(tags, local[p].newTags) IN
              /\ tags' = tags \cup inserted
              /\ local' = [local EXCEPT ![p].existingTags = @ \cup inserted]
              /\ Continue(p, "relInsert")
  /\ UNCHANGED <<articles, article_tags, nextArticleId, schema, req, save, saves>>
  /\ UNCHANGED document
  /\ UNCHANGED page

\* tags.insert(newTags.map((name) => ({ name }))).select() returns
TagInsert(p) ==
  /\ pc[p] = "tagInsert"
  /\ \E ok \in BOOLEAN :
       IF ~ok \/ ~TagInsertAccepted(tags, local[p].newTags)
         THEN /\ Throw(p, IF ok THEN "rejected" ELSE "fault")
              /\ UNCHANGED <<tags, local>>
         ELSE LET inserted == InsertedTags(tags, local[p].newTags) IN
              /\ tags' = tags \cup inserted
              /\ local' = [local EXCEPT ![p].existingTags = @ \cup inserted]
              /\ Continue(p, "relInsert")
  /\ UNCHANGED <<articles, article_tags, nextArticleId, schema, req, save, saves>>
  /\ UNCHANGED document
  /\ UNCHANGED page

\* article_tags.insert(existingTags.map(...)) returns
RelInsert(p) ==
  /\ pc[p] = "relInsert"
  /\ LET rows == Relations(local[p].article.id, local[p].existingTags) IN
     \E ok \in BOOLEAN :
       IF ~ok \/ ~RelInsertAccepted(article_tags, rows)
         THEN /\ Throw(p, IF ok THEN "rejected" ELSE "fault")
              /\ UNCHANGED article_tags
         ELSE /\ article_tags' = article_tags (+) SetToBag(rows)
              /\ Succeed(p, local[p].article)
  /\ UNCHANGED <<articles, tags, nextArticleId, schema, req, save, local, saves>>
  /\ UNCHANGED document
  /\ UNCHANGED page

Ingest(r) ==
  \/ Receive(r)
  \/ ArticleInsert(r)
  \/ TagSelect(r)
  \/ TagInsert(r)
  \/ RelInsert(r)

----------------------------------------------------------------------------
\* Saves of an existing article: Editor.handleSave, SettingsModal.handleSave
\* and ArticleManager.replaceArticle

Handlers == {"editor", "settings", "replace"}

\* What a save is started with.  armed: the handler's first guard passes
\* (editor: article?.markdown_content; settings: article; manager:
\* selectedFile).  copy: the article as the page loaded it.  title, tags: the
\* editor's state, or what the manager parsed from the selected file.
SaveRequests(row) ==
  { [handler |-> h, armed |-> FALSE, copy |-> row, title |-> row.title,
     tags |-> <<>>] : h \in Handlers }
  \cup
  { [handler |-> h, armed |-> TRUE, copy |-> row, title |-> row.title,
     tags |-> l] : h \in {"editor", "settings"}, l \in TagLists }
  \cup
  { [handler |-> "replace", armed |-> TRUE, copy |-> row, title |-> t,
     tags |-> l] : t \in Titles, l \in TagLists }

\* the row the editor upserts: {...article, markdown_content, status, updated_at}
\* with status = "draft" (the Save Draft button)
EditorRow(q) == [q.copy EXCEPT !.status = "draft"]

\* the row the settings modal upserts: the article's fields as they are
SettingsRow(q) == q.copy

\* the handler is called and runs up to its first await of the store
StartSave(s) ==
  /\ pc[s] = "idle"
  /\ saves < MaxSaves
  /\ saves' = saves + 1
  /\ \E row \in articles : \E q \in SaveRequests(row) :
       /\ save' = [save EXCEPT ![s] = q]
       /\ IF ~q.armed
            THEN /\ pc' = [pc EXCEPT ![s] = "done"]
                 /\ UNCHANGED <<local, calls>>
            ELSE /\ local' = [local EXCEPT ![s].article = q.copy,
                                           ![s].tags = q.tags]
                 /\ LET op == IF q.handler = "replace" THEN "articleUpdate"
                                                       ELSE "articleUpsert"
                    IN  /\ calls' = [calls EXCEPT ![s] = Issue(s, op)]
                        /\ pc' = [pc EXCEPT ![s] = op]
  /\ UNCHANGED <<store, schema, req, resp, outcome>>
  /\ UNCHANGED document
  /\ UNCHANGED page

\* articles.upsert({...}) returns (editor, settings)
ArticleUpsert(s) ==
  /\ pc[s] = "articleUpsert"
  /\ \E ok \in BOOLEAN :
       IF ~ok
         THEN Throw(s, "fault") /\ UNCHANGED articles
         ELSE /\ articles' = UpsertArticle(articles,
                   IF save[s].handler = "editor" THEN EditorRow(save[s])
                                                 ELSE SettingsRow(save[s]))
              \* if (article.id): the editor's and the modal's article has one
              /\ Continue(s, "relDelete")
  /\ UNCHANGED <<tags, article_tags, nextArticleId, schema, req, save, local, saves>>
  /\ UNCHANGED document
  /\ UNCHANGED page

\* articles.update({title, ...}).eq("id", articleId) returns (manager)
ArticleUpdate(s) ==
  /\ pc[s] = "articleUpdate"
  /\ \E ok \in BOOLEAN :
       IF ~ok
         THEN Throw(s, "fault") /\ UNCHANGED articles
         ELSE /\ articles' = UpdateArticle(articles, local[s].article.id,
                                           save[s].title)
              /\ IF Len(local[s].tags) > 0
                   THEN Continue(s, "relDelete")
                   ELSE Continue(s, "refresh")
  /\ UNCHANGED <<tags, article_tags, nextArticleId, schema, req, save, local, saves>>
  /\ UNCHANGED document
  /\ UNCHANGED page

\* article_tags.delete().eq("article_id", id) returns.  The editor and the
\* modal throw its error; the manager does not look at it.
RelDelete(s) ==
  /\ pc[s] = "relDelete"
  /\ \E ok \in BOOLEAN :
       IF ~ok /\ save[s].handler # "replace"
         THEN Throw(s, "fault") /\ UNCHANGED article_tags
         ELSE /\ article_tags' =
                   IF ok THEN DeleteRelations(article_tags, local[s].article.id)
                         ELSE article_tags
              /\ IF Len(local[s].tags) > 0
                   THEN /\ calls' = [calls EXCEPT ![s] = ReturnedThenIssue(
                              s, IF ok THEN "ok" ELSE "fault", "tagSelect")]
                        /\ pc' = [pc EXCEPT ![s] = "tagSelect"]
                        /\ UNCHANGED <<resp, outcome>>
                   ELSE /\ calls' = [calls EXCEPT ![s] =
                                       Returned(s, IF ok THEN "ok" ELSE "fault")]
                        /\ outcome' = [outcome EXCEPT ![s] = "saved"]
                        /\ pc' = [pc EXCEPT ![s] = "done"]
                        /\ UNCHANGED resp
  /\ UNCHANGED <<articles, tags, nextArticleId, schema, req, save, local, saves>>
  /\ UNCHANGED document
  /\ UNCHANGED page

\* await fetchArticles() returns (manager); it catches its own errors
Refresh(s) ==
  /\ pc[s] = "refresh"
  /\ \E ok \in BOOLEAN :
       /\ calls' = [calls EXCEPT ![s] = Returned(s, IF ok THEN "ok" ELSE "fault")]
       /\ outcome' = [outcome EXCEPT ![s] = "saved"]
       /\ pc' = [pc EXCEPT ![s] = "done"]
  /\ UNCHANGED <<store, schema, req, save, local, resp, saves>>
  /\ UNCHANGED document
  /\ UNCHANGED page

\* the handler has returned; the button can be clicked again
Reset(s) ==
  /\ pc[s] = "done"
  /\ pc' = [pc EXCEPT ![s] = "idle"]
  /\ save' = [save EXCEPT ![s] = NoSave]
  /\ local' = [local EXCEPT ![s] = NoLocal]
  /\ calls' = [calls EXCEPT ![s] = <<>>]
  /\ outcome' = [outcome EXCEPT ![s] = "none"]
  /\ UNCHANGED <<store, schema, req, resp, saves>>
  /\ UNCHANGED document
  /\ UNCHANGED page

SaveStep(s) ==
  \/ StartSave(s)
  \/ ArticleUpsert(s)
  \/ ArticleUpdate(s)
  \/ RelDelete(s)
  \/ TagSelect(s)
  \/ TagInsert(s)
  \/ RelInsert(s)
  \/ Refresh(s)
  \/ Reset(s)

----------------------------------------------------------------------------
\* ArticleManager.deleteArticle

\* What the store does with the delete of an article row that association
\* rows still reference: nothing special (no foreign key), refuse the delete
\* (foreign key), or delete the association rows too (cascade).
ForeignKeys == {"none", "restrict", "cascade"}

\* deleteArticle is called (Delete button) and runs up to its first await;
\* confirmed: the answer to confirm("Are you sure ...")
StartDelete(s) ==
  /\ pc[s] = "idle"
  /\ saves < MaxSaves
  /\ saves' = saves + 1
  /\ \E row \in articles, confirmed \in BOOLEAN :
       /\ save' = [save EXCEPT ![s] = [handler |-> "delete", armed |-> confirmed,
                                       copy |-> row, title |-> row.title,
                                       tags |-> <<>>]]
       /\ IF ~confirmed
            THEN /\ pc' = [pc EXCEPT ![s] = "done"]
                 /\ UNCHANGED <<local, calls>>
            ELSE /\ local' = [local EXCEPT ![s].article = row]
                 /\ calls' = [calls EXCEPT ![s] = Issue(s, "assocDelete")]
                 /\ pc' = [pc EXCEPT ![s] = "assocDelete"]
  /\ UNCHANGED <<store, schema, req, resp, outcome>>
  /\ UNCHANGED document
  /\ UNCHANGED page

\* await article_tags.delete().eq("article_id", articleId) returns; its
\* result is not looked at
AssocDelete(s) ==
  /\ pc[s] = "assocDelete"
  /\ \E ok \in BOOLEAN :
       /\ article_tags' =
            IF ok THEN DeleteRelations(article_tags, local[s].article.id)
                  ELSE article_tags
       /\ calls' = [calls EXCEPT ![s] = ReturnedThenIssue(
              s, IF ok THEN "ok" ELSE "fault", "articleDelete")]
       /\ pc' = [pc EXCEPT ![s] = "articleDelete"]
  /\ UNCHANGED <<articles, tags, nextArticleId, schema, req, save, local,
                 resp, outcome, saves>>
  /\ UNCHANGED document
  /\ UNCHANGED page

\* articles.delete().eq("id", articleId) returns; if (error) throw error
ArticleDelete(s) ==
  /\ pc[s] = "articleDelete"
  /\ \E ok \in BOOLEAN, fk \in ForeignKeys :
       LET id == local[s].article.id
           referenced == RowsOfArticle(article_tags, id) # {}
       IN  IF ~ok \/ (referenced /\ fk = "restrict")
             THEN /\ Throw(s, IF ok THEN "rejected" ELSE "fault")
                  /\ UNCHANGED <<articles, article_tags>>
             ELSE /\ articles' = {a \in articles : a.id # id}
                  /\ article_tags' =
                       IF fk = "cascade" THEN DeleteRelations(article_tags, id)
                                         ELSE article_tags
                  /\ Continue(s, "refresh")
  /\ UNCHANGED <<tags, nextArticleId, schema, req, save, local, saves>>
  /\ UNCHANGED document
  /\ UNCHANGED page

DeleteStep(s) ==
  \/ StartDelete(s)
  \/ AssocDelete(s)
  \/ ArticleDelete(s)
  \/ Refresh(s)
  \/ Reset(s)

----------------------------------------------------------------------------
\* The uploader page (FileUploader): the Save button of a file, Save All, the
\* remove button.  A request to the endpoint is an entry of `fetches`; the
\* endpoint's run is seen from the page as the request's result.

\* Number of files in the uploader's list.
MaxFiles == 2

\* file ids, in the order of the list
FileIds == 1..MaxFiles

uploaderPage == <<files, fetches, isProcessing, saveAll>>

editorPage == <<article, articleTags, newTag>>

\* everything outside the browser pages
backend == <<store, schema, pc, req, save, local, calls, resp, outcome,
    saves>>

\* the files dropped on the page have been read: each is pending, or could
\* not be read (status error)
InitUpload ==
  /\ InitHandlers
  /\ schema = [tagNameUnique |-> FALSE, assocPk |-> FALSE]
  /\ markdown = <<>>
  /\ filename = NoFilename
  /\ derived = NotDerived
  /\ \E status \in [FileIds -> {"pending", "error"}] :
       files = [f \in FileIds |->
                  ProcessedFile(<<"t", "e", "s", "t", ".", "m", "d">>, <<>>,
                      NullFrontmatter, status[f])]
  /\ fetches = <<>>
  /\ isProcessing = FALSE
  /\ saveAll = NoSaveAll
  /\ article = NullArticle
  /\ articleTags = <<>>
  /\ newTag = <<>>

\* setFiles((prev) => prev.map((f) => (f.id === id ? {...f, status} : f)))
SetStatus(list, id, status) ==
  [f \in DOMAIN list |-> IF f = id THEN [list[f] EXCEPT !.status = status]
                                   ELSE list[f]]

\* the guard of saveToDatabase, on the file object it was called with
Skipped(status) == status \in {"processing", "success"}

\* (mutant of Settled: the catch block does not set the status)
SettledOnSuccessOnly(result) == IF result = "ok" THEN "success" ELSE "processing"

\* the status saveToDatabase sets when its request has returned: success if
\* the response is ok and says success, error from the catch block otherwise
Settled(result) == IF result = "ok" THEN "success" ELSE "error"

\* saveToDatabase(file) up to `await fetch(...)`, for a file object whose
\* status passes the guard
Submit(id, by) ==
  /\ files' = SetStatus(files, id, "processing")
  /\ fetches' = Append(fetches, [file |-> id, by |-> by,
      result |-> "pending"])

\* the Save button of a file (shown while the file is pending) is clicked
ClickSave(id) ==
  /\ id \in DOMAIN files
  /\ files[id].status = "pending"
  /\ ~Skipped(files[id].status)
  /\ Submit(id, "save")
  /\ UNCHANGED <<isProcessing, saveAll>>
  /\ UNCHANGED <<backend, document, editorPage>>

\* files.filter((f) => f.status === "pending"), in the order of the list
Pending(list) ==
  LET ids == {f \in DOMAIN list : list[f].status = "pending"}
      nth(k) == CHOOSE f \in ids : Cardinality({g \in ids : g <= f}) = k
  IN  [k \in 1..Cardinality(ids) |-> nth(k)]

\* Save All (shown while a file is pending, disabled while isProcessing) is
\* clicked: saveAllFiles runs up to the fetch of its first file
ClickSaveAll ==
  /\ ~isProcessing
  /\ Pending(files) # <<>>
  /\ isProcessing' = TRUE
  /\ saveAll' = [pendingFiles |-> Pending(files), i |-> 1, at |-> "fetch"]
  /\ Submit(Pending(files)[1], "saveAll")
  /\ UNCHANGED <<backend, document, editorPage>>

\* a request returns (ok: the response is ok and says success).  The status
\* is set; a saveToDatabase called by saveAllFiles returns to the loop, which
\* waits for its timer.
FetchReturns(k) ==
  /\ k \in DOMAIN fetches
  /\ fetches[k].result = "pending"
  /\ \E result \in {"ok", "failed"} :
       /\ fetches' = [fetches EXCEPT ![k].result = result]
       /\ files' = SetStatus(files, fetches[k].file, Settled(result))
  /\ saveAll' = IF fetches[k].by = "saveAll"
                  THEN [saveAll EXCEPT !.at = "delay"] ELSE saveAll
  /\ UNCHANGED isProcessing
  /\ UNCHANGED <<backend, document, editorPage>>

\* the loop's timer fires: saveToDatabase of the next file the loop took (the
\* object of the render in which Save All was clicked, whose status is
\* pending), or the end of the loop
SaveAllNext ==
  /\ saveAll.at = "delay"
  /\ IF saveAll.i < Len(saveAll.pendingFiles)
       THEN /\ ~Skipped("pending")
            /\ Submit(saveAll.pendingFiles[saveAll.i + 1], "saveAll")
            /\ saveAll' = [saveAll EXCEPT !.i = @ + 1, !.at = "fetch"]
            /\ UNCHANGED isProcessing
       ELSE /\ isProcessing' = FALSE
            /\ saveAll' = NoSaveAll
            /\ UNCHANGED <<files, fetches>>
  /\ UNCHANGED <<backend, document, editorPage>>

\* removeFile(id)
RemoveFile(id) ==
  /\ id \in DOMAIN files
  /\ files' = [f \in DOMAIN files \ {id} |-> files[f]]
  /\ UNCHANGED <<fetches, isProcessing, saveAll>>
  /\ UNCHANGED <<backend, document, editorPage>>

NextUpload ==
  \/ \E id \in FileIds : ClickSave(id) \/ RemoveFile(id)
  \/ ClickSaveAll
  \/ \E k \in 1..(2 * MaxFiles) : FetchReturns(k)
  \/ SaveAllNext

\* every request completes or fails, and the loop's timer fires
FairUpload ==
  /\ \A k \in 1..(2 * MaxFiles) : WF_vars(FetchReturns(k))
  /\ WF_vars(SaveAllNext)

SpecUpload == InitUpload /\ [][NextUpload]_vars /\ FairUpload

----------------------------------------------------------------------------
\* The metadata editor's tag list (MetadataEditor): the tags prop is the
\* page's articleTags, onTagsChange sets it, newTag is the text of the input

\* what can be typed into the tag input
TagInputs ==
  { <<>>, <<" ">>, <<"a">>, <<" ", "a">>, <<"a", " ">>, <<"b">>, <<" ", "b",
      " ">>, <<"a", " ", "b">> }

\* names of the tags of a loaded article
LoadedNames == { <<"a">>, <<"b">> }

\* the list the page hands to the metadata editor: the names of a loaded
\* article's tags (two tag rows can carry one name), or none
InitTagEditor ==
  /\ InitHandlers
  /\ schema = [tagNameUnique |-> FALSE, assocPk |-> FALSE]
  /\ markdown = <<>>
  /\ filename = NoFilename
  /\ derived = NotDerived
  /\ files = <<>>
  /\ fetches = <<>>
  /\ isProcessing = FALSE
  /\ saveAll = NoSaveAll
  /\ article = PageArticle(1, <<"t", "0">>, <<>>, <<>>, <<>>, <<"x">>,
                           JsValue("undefined", <<>>, <<>>))
  /\ articleTags \in UNION {[1..n -> LoadedNames] : n \in 0..MaxTags}
  /\ newTag = <<>>

\* onChange of the input: setNewTag(e.target.value)
TypeTag(text) ==
  /\ newTag' = text
  /\ UNCHANGED <<article, articleTags>>
  /\ UNCHANGED <<backend, document, uploaderPage>>

\* tags.includes(name)
Includes(list, name) == \E k \in DOMAIN list : list[k] = name

\* (mutant of handleAddTag: the input is compared untrimmed)
handleAddTagUntrimmed ==
  /\ IF Trim(newTag) = <<>> \/ Includes(articleTags, newTag)
       THEN UNCHANGED <<articleTags, newTag>>
       ELSE /\ articleTags' = Append(articleTags, Trim(newTag))
            /\ newTag' = <<>>
  /\ UNCHANGED article
  /\ UNCHANGED <<backend, document, uploaderPage>>

\* handleAddTag (the Add button, or Enter in the input)
handleAddTag ==
  /\ IF Trim(newTag) = <<>> \/ Includes(articleTags, Trim(newTag))
       THEN UNCHANGED <<articleTags, newTag>>
       ELSE /\ articleTags' = Append(articleTags, Trim(newTag))
            /\ newTag' = <<>>
  /\ UNCHANGED article
  /\ UNCHANGED <<backend, document, uploaderPage>>

\* tags.filter((tag) => tag !== tagToRemove)
Filtered(list, name) == SelectSeq(list, LAMBDA t : t # name)

\* handleRemoveTag(tagToRemove): the X button of a tag of the list
handleRemoveTag(tagToRemove) ==
  /\ Includes(articleTags, tagToRemove)
  /\ articleTags' = Filtered(articleTags, tagToRemove)
  /\ UNCHANGED <<article, newTag>>
  /\ UNCHANGED <<backend, document, uploaderPage>>

NextTagEditor ==
  \/ \E text \in TagInputs : TypeTag(text)
  \/ handleAddTag
  \/ \E k \in 1..(MaxTags + 3) :
       k \in DOMAIN articleTags /\ handleRemoveTag(articleTags[k])

SpecTagEditor == InitTagEditor /\ [][NextTagEditor]_vars

\* no other invocation is between its first and its last backend call
Quiet(p) == \A o \in Procs \ {p} : pc[o] \in {"idle", "done"}

\* Concurrent invocations of the endpoint
Next == \E r \in Runs : Ingest(r)

Spec == Init /\ [][Next]_vars

\* Invocations of the endpoint one after the other (no concurrent writer)
NextSeq == \E r \in Runs : Quiet(r) /\ Ingest(r)

SpecSeq == Init /\ [][NextSeq]_vars

\* Saves one after the other: one page, whose handler is called again after
\* it has returned
SerialSavers == {"s1"}

NextSave == \E s \in SerialSavers : SaveStep(s)

SpecSave == Init /\ [][NextSave]_vars

\* The article manager's page: replacements and deletions, and the editor's
\* saves, one after the other
NextManage == \E s \in SerialSavers : SaveStep(s) \/ DeleteStep(s)

SpecManage == Init /\ [][NextManage]_vars


\* Two pages open at the same time (two tabs, or the manager and the editor):
\* their saves, replacements and deletions interleave call by call
NextPages == \E s \in Savers : SaveStep(s) \/ DeleteStep(s)

\* the store of the pages: no constraint on tags.name or on article_tags
InitPages == Init /\ schema = [tagNameUnique |-> FALSE, assocPk |-> FALSE]

SpecPages == InitPages /\ [][NextPages]_vars

----------------------------------------------------------------------------
\* The derivation alone, on every request body of Inputs

InitDerive ==
  /\ InitHandlers
  /\ schema = [tagNameUnique |-> FALSE, assocPk |-> FALSE]
  /\ \E i \in Inputs : markdown = i.markdown /\ filename = i.filename
  /\ derived = NotDerived
  /\ InitPage

\* index.ts 131-154 for the request body (markdown, filename)
Derive ==
  /\ ~derived.done
  /\ \E now \in Clock : derived' = Derivation(markdown, filename, now)
  /\ UNCHANGED <<store, schema, pc, req, save, local, calls, resp, outcome,
                 saves, markdown, filename>>
  /\ UNCHANGED page

NextDerive == Derive

SpecDerive == InitDerive /\ [][NextDerive]_vars

----------------------------------------------------------------------------
\* The article manager reads the selected file (replaceArticle, up to the
\* update of the article row)

\* title, excerpt, category, date, tags and markdownContent as replaceArticle
\* computes them from the file's text and name
ReplaceDerivation(content, name, now) ==
  LET m == FrontmatterMatch(content)
      initial == [isNull |-> FALSE,
                  title |-> StripExtension(name),
                  excerpt |-> <<"N", "o", " ", "e", "x", "c", "e", "r", "p",
                      "t", " ", "p", "r", "o", "v", "i", "d", "e", "d">>,
                  category |-> <<"U", "n", "c", "a", "t", "e", "g", "o", "r",
                      "i", "z", "e", "d">>,
                  date |-> now,
                  tags |-> EmptyList]
      fields == IF m.matched
                  THEN ParseLines(initial, Split(m.frontmatterStr, "\n"))
                  ELSE initial
  IN  [done |-> TRUE,
       content |-> IF m.matched THEN Trim(m.mainContent) ELSE content,
       title |-> fields.title,
       excerpt |-> fields.excerpt,
       category |-> fields.category,
       date |-> fields.date,
       tags |-> fields.tags]

\* handleFileSelect takes a file whose name ends with .md or .markdown
Selectable(name) ==
  \/ EndsWith(name, <<".", "m", "d">>)
  \/ EndsWith(name, <<".", "m", "a", "r", "k", "d", "o", "w", "n">>)

\* the files the manager can be given: the request bodies whose filename
\* handleFileSelect takes
InitReplace ==
  /\ InitHandlers
  /\ schema = [tagNameUnique |-> FALSE, assocPk |-> FALSE]
  /\ \E i \in Inputs :
       /\ i.filename.present
       /\ Selectable(i.filename.text)
       /\ markdown = i.markdown
       /\ filename = i.filename
  /\ derived = NotDerived
  /\ InitPage

\* replaceArticle reads and parses the selected file
ParseSelectedFile ==
  /\ ~derived.done
  /\ \E now \in Clock : derived' = ReplaceDerivation(markdown, filename.text,
      now)
  /\ UNCHANGED <<backend, markdown, filename>>
  /\ UNCHANGED page

NextReplace == ParseSelectedFile

SpecReplace == InitReplace /\ [][NextReplace]_vars

----------------------------------------------------------------------------
\* The endpoint run on a document, with the article row written out in full

\* the names of a tags value that is a list of strings
TagNames(value) == [k \in DOMAIN value.items |-> value.items[k].text]

TagsAreNames(value) ==
  /\ value.kind = "array"
  /\ \A k \in DOMAIN value.items : value.items[k].kind = "string"

\* articleData with every column: title, slug, excerpt, category, read_time,
\* status, markdown_content, html_content, date
ArticleRow(id, d) ==
  LET a == ArticleData(id, d.title)
  IN  [id |-> a.id, title |-> a.title, status |-> a.status,
       html_content |-> a.html_content, slug |-> d.slug,
       excerpt |-> d.excerpt, category |-> d.category,
       read_time |-> d.readTime, markdown_content |-> d.content,
       date |-> d.date]

\* the request that carries the document, after the derivation d
DocumentRequest(d) ==
  [method |-> "POST", json |-> TRUE,
   markdown |-> [type |-> "string", truthy |-> TRUE],
   title |-> d.title, tags |-> TagNames(d.tags)]

\* a block of the lines ls with the body of the scenario
BlockDocument(ls) == <<"-", "-", "-", "\n">> \o Join(ls) \o <<"\n", "-", "-",
    "-", "\n", "\n", "B", "o", "d", "y", " ", "t", "e", "x", "t", " ", "h",
    "e", "r", "e", ".">>

\* Documents with a block of at most MaxLines lines and the body of the
\* scenario, and the scenario's document; those whose tags value is a list of
\* names (for the others the handler's tags is no list).
DocumentInputs ==
  {i \in {[markdown |-> d, filename |-> ScenarioFilename] :
            d \in {BlockDocument(ls) : ls \in LineLists} \cup {ScenarioDocument}} :
     TagsAreNames(parseFrontmatter(i.markdown).frontmatter.tags)}


\* a store with no article and no tag
InitDocument ==
  /\ articles = {}
  /\ tags = {}
  /\ article_tags = EmptyBag
  /\ nextArticleId = 1
  /\ schema \in [tagNameUnique : BOOLEAN, assocPk : BOOLEAN]
  /\ pc = [p \in Procs |-> "idle"]
  /\ req = [p \in Runs |-> NoRequest]
  /\ save = [p \in Savers |-> NoSave]
  /\ local = [p \in Procs |-> NoLocal]
  /\ calls = [p \in Procs |-> <<>>]
  /\ resp = [p \in Runs |-> <<>>]
  /\ outcome = [p \in Savers |-> "none"]
  /\ saves = 0
  /\ \E i \in DocumentInputs : markdown = i.markdown /\ filename = i.filename
  /\ derived = NotDerived
  /\ InitPage

\* the request with the document arrives; the handler derives the article
\* data and runs up to its first await of the store
ReceiveDocument(r) ==
  /\ pc[r] = "idle"
  /\ ~derived.done
  /\ \E envOk \in BOOLEAN, now \in Clock :
       LET d == Derivation(markdown, filename, now)
       IN  /\ derived' = d
           /\ Accept(r, DocumentRequest(d), envOk)
  /\ UNCHANGED <<store, schema, save, saves, markdown, filename>>
  /\ UNCHANGED page

\* articles.insert(articleData).select().single() returns
ArticleInsertDocument(r) ==
  /\ InsertArticle(r, ArticleRow(nextArticleId, derived))
  /\ UNCHANGED document
  /\ UNCHANGED page

DocumentRuns == {"r1"}

NextDocument ==
  \E r \in DocumentRuns :
    \/ ReceiveDocument(r)
    \/ ArticleInsertDocument(r)
    \/ TagSelect(r)
    \/ TagInsert(r)
    \/ RelInsert(r)

SpecDocument == InitDocument /\ [][NextDocument]_vars

----------------------------------------------------------------------------
\* The stored article through its life: ingested by the endpoint, replaced
\* from a file by the manager, loaded, edited, saved and published by the
\* editor page.  Each handler runs alone, with every call to the store
\* answered without error unless said otherwise.

\* Most articles ingested in one behaviour.
MaxArticles == 1

\* the files dropped on the uploader or selected in the manager
ContentFiles ==
  { [markdown |-> ScenarioDocument, filename |-> ScenarioFilename],
    [markdown |-> <<"-", "-", "-", "\n", "t", "i", "t", "l", "e", ":", " ",
        "O", "t", "h", "e", "r", "\n", "t", "a", "g", "s", ":", " ", "[",
        "\"", "x", "\"", "]", "\n", "-", "-", "-", "\n", "O", "n", "e", " ",
        "t", "w", "o", ".">>,
     filename |-> Filename(<<"o", "t", "h", "e", "r", ".", "m", "d">>)],
    [markdown |-> <<"P", "l", "a", "i", "n", " ", "t", "e", "x", "t", ".">>,
        filename |-> Filename(<<"p", "l", "a", "i", "n", ".", "m", "a", "r",
        "k", "d", "o", "w", "n">>)] }

\* the texts typed into the editor
EditedBodies == { <<"N", "e", "w", " ", "b", "o", "d", "y", ".">> }

InitContent ==
  /\ articles = {}
  /\ tags = {}
  /\ article_tags = EmptyBag
  /\ nextArticleId = 1
  /\ schema = [tagNameUnique |-> FALSE, assocPk |-> FALSE]
  /\ pc = [p \in Procs |-> "idle"]
  /\ req = [p \in Runs |-> NoRequest]
  /\ save = [p \in Savers |-> NoSave]
  /\ local = [p \in Procs |-> NoLocal]
  /\ calls = [p \in Procs |-> <<>>]
  /\ resp = [p \in Runs |-> <<>>]
  /\ outcome = [p \in Savers |-> "none"]
  /\ saves = 0
  /\ \E i \in ContentFiles : markdown = i.markdown /\ filename = i.filename
  /\ derived = NotDerived
  /\ InitPage

\* the tags table after the tag step for the list `names`: select the rows
\* of the names, insert the names that have none
TagsReconciled(table, names) ==
  LET existing == SelectTagsIn(table, names)
      new == NewTags(names, existing)
  IN  table \cup (IF Len(new) > 0 THEN InsertedTags(table, new) ELSE {})

\* the association rows the tag step inserts for article id
RelationsReconciled(table, id, names) ==
  LET existing == SelectTagsIn(table, names)
      new == NewTags(names, existing)
  IN  Relations(id, existing \cup (IF Len(new) > 0 THEN InsertedTags(table,
      new)
                                                    ELSE {}))

\* the endpoint is sent the file (index.ts 105-251)
IngestFile ==
  /\ nextArticleId <= MaxArticles
  /\ \E now \in Clock :
       \E d \in {Derivation(markdown, filename, now)} :
         \E names \in {TagNames(d.tags)} :
           /\ TagsAreNames(d.tags)
           /\ derived' = d
           /\ articles' = articles \cup {ArticleRow(nextArticleId, d)}
           /\ nextArticleId' = nextArticleId + 1
           /\ IF Len(names) > 0
                THEN /\ tags' = TagsReconciled(tags, names)
                     /\ article_tags' = article_tags (+)
                          SetToBag(RelationsReconciled(tags, nextArticleId,
                              names))
                ELSE UNCHANGED <<tags, article_tags>>
  /\ UNCHANGED <<schema, pc, req, save, local, calls, resp, outcome, saves,
                 markdown, filename>>
  /\ UNCHANGED page

\* ArticleManager.handleFileSelect
SelectFile ==
  /\ \E i \in ContentFiles :
       /\ Selectable(i.filename.text)
       /\ markdown' = i.markdown
       /\ filename' = i.filename
  /\ UNCHANGED <<backend, derived>>
  /\ UNCHANGED page

\* ArticleManager.replaceArticle(articleId) with the selected file
replaceArticle(articleId) ==
  /\ articleId \in IdsOf(articles)
  /\ \E now \in Clock :
       \E r \in {ReplaceDerivation(markdown, filename.text, now)} :
         \E names \in {TagNames(r.tags)} :
           /\ TagsAreNames(r.tags)
           /\ derived' = r
           /\ articles' =
                {IF a.id = articleId
                   THEN [a EXCEPT !.title = r.title, !.excerpt = r.excerpt,
                                  !.category = r.category,
                                  !.markdown_content = r.content,
                                  !.date = r.date]
                   ELSE a : a \in articles}
           /\ IF Len(names) > 0
                THEN /\ tags' = TagsReconciled(tags, names)
                     /\ article_tags' =
                          DeleteRelations(article_tags, articleId) (+)
                          SetToBag(RelationsReconciled(tags, articleId,
                              names))
                ELSE UNCHANGED <<tags, article_tags>>
  /\ UNCHANGED <<nextArticleId, schema, pc, req, save, local, calls, resp,
                 outcome, saves, markdown, filename>>
  /\ UNCHANGED page

\* the row of the store as an article object of the page (tags: no handler
\* sets it on a row)
PageOf(row) ==
  [isNull |-> FALSE, id |-> row.id, title |-> row.title, slug |-> row.slug,
   excerpt |-> row.excerpt, category |-> row.category,
   read_time |-> row.read_time, status |-> row.status,
   markdown_content |-> row.markdown_content,
   html_content |-> row.html_content, date |-> row.date,
   tags |-> JsValue("undefined", <<>>, <<>>)]

\* the columns of the article object that upsert({...article, ...}) writes
RowOf(a) ==
  [id |-> a.id, title |-> a.title, status |-> a.status,
   html_content |-> a.html_content, slug |-> a.slug, excerpt |-> a.excerpt,
   category |-> a.category, read_time |-> a.read_time,
   markdown_content |-> a.markdown_content, date |-> a.date]

\* a || b on strings
OrElse(a, b) == IF a # <<>> THEN a ELSE b

\* Editor.fetchArticle: the page of article id is opened
fetchArticle(id) ==
  /\ \E row \in articles :
       /\ row.id = id
       /\ \E parsed \in {parseFrontmatter(row.markdown_content)} :
            \E fm \in {parsed.frontmatter}, loaded \in {PageOf(row)} :
              article' =
                IF row.markdown_content # <<>> /\ ~fm.isNull
                  THEN [loaded EXCEPT
                          !.title = OrElse(fm.title, row.title),
                          !.excerpt = OrElse(fm.excerpt, row.excerpt),
                          !.category = OrElse(fm.category, row.category),
                          !.date = OrElse(fm.date, row.date),
                          !.markdown_content = parsed.content]
                  ELSE loaded
       /\ \E rows \in { {t \in tags : \E r \in RowsOfArticle(article_tags,
           id) :
                                          r.tag_id = t.id} } :
              \E order \in [1..Cardinality(rows) -> rows] :
                /\ \A j, k \in DOMAIN order : order[j] = order[k] => j = k
                /\ articleTags' = [k \in DOMAIN order |-> order[k].name]
  /\ UNCHANGED newTag
  /\ UNCHANGED <<backend, document, uploaderPage>>

\* Editor.handleContentChange(content), on the page of an existing article
handleContentChange(content) ==
  /\ ~article.isNull
  /\ article' = [article EXCEPT !.markdown_content = content,
                                !.html_content = "null"]
  /\ UNCHANGED <<articleTags, newTag>>
  /\ UNCHANGED <<backend, document, uploaderPage>>

\* Editor.handleSave("draft")
handleSave ==
  /\ ~article.isNull
  /\ article.markdown_content # <<>>
  /\ \E now \in Clock :
       \E fullContent \in
            { generateFrontmatter([article EXCEPT !.tags = ArrayOf(articleTags)],
                                  now)
                \o article.markdown_content } :
           articles' = UpsertArticle(articles,
                 RowOf([article EXCEPT !.markdown_content = fullContent,
                                       !.status = "draft"]))
  /\ IF Len(articleTags) > 0
       THEN /\ tags' = TagsReconciled(tags, articleTags)
            /\ article_tags' =
                 DeleteRelations(article_tags, article.id) (+)
                 SetToBag(RelationsReconciled(tags, article.id, articleTags))
       ELSE /\ article_tags' = DeleteRelations(article_tags, article.id)
            /\ UNCHANGED tags
  /\ UNCHANGED <<nextArticleId, schema, pc, req, save, local, calls, resp,
                 outcome, saves>>
  /\ UNCHANGED document
  /\ UNCHANGED page

\* Editor.handlePublish (the Publish button is disabled once the article is
\* published); published: the rpc publish_article returned without error
handlePublish ==
  /\ ~article.isNull
  /\ article.markdown_content # <<>>
  /\ article.status # "published"
  /\ \E now \in Clock, published \in BOOLEAN :
       \E fullContent \in { generateFrontmatter(article, now)
                               \o article.markdown_content } :
           /\ articles' =
                {IF a.id = article.id
                   THEN [a EXCEPT !.markdown_content = fullContent,
                                  !.status = IF published THEN "published"
                                                          ELSE @]
                   ELSE a : a \in articles}
           /\ article' = IF published
                           THEN [article EXCEPT !.status = "published"]
                           ELSE article
  /\ UNCHANGED <<articleTags, newTag>>
  /\ UNCHANGED <<tags, article_tags, nextArticleId, schema, pc, req, save,
                 local, calls, resp, outcome, saves>>
  /\ UNCHANGED <<document, uploaderPage>>

NextContent ==
  \/ IngestFile
  \/ SelectFile
  \/ \E id \in 1..MaxArticles : replaceArticle(id) \/ fetchArticle(id)
  \/ \E content \in EditedBodies : handleContentChange(content)
  \/ handleSave
  \/ handlePublish

SpecContent == InitContent /\ [][NextContent]_vars

----------------------------------------------------------------------------
\* Writing the header and reading it back: the editor's fullContent
\* (generateFrontmatter + body) read by parseFrontmatter on the next load, and
\* the uploader's fullContent read by the endpoint's parseFrontmatter

\* values of a scalar field, without line breaks
FieldTexts ==
  { <<>>, <<"T">>, <<"\"">>, <<"\"", "a", "\"">>, <<" ", "a", " ">>, <<"a",
      ":", "b">>, <<"a", "\"", " ">>, <<"-", "-", "-">> }

ExcerptTexts == { <<>>, <<"E">>, <<"\"", "q">> }

CategoryTexts == { <<>>, <<"C">> }

DateTexts == { <<>>, <<"2", "0", "2", "4", "-", "0", "1", "-", "0", "1">> }

\* tag names: plain, with a comma, a quote, a backslash, a bracket and a colon
TagTexts == { <<"x">>, <<"a", ",", "b">>, <<"a", "\"", "b">>, <<"a", "\\">>,
    <<"]", ":", " ">> }

TagTextLists == UNION {[1..n -> TagTexts] : n \in 0..MaxTags}

\* trimmed bodies
TrimmedBodies == { <<>>, <<"B", "o", "d", "y", " ", "t", "e", "x", "t", " ",
    "h", "e", "r", "e", ".">>, <<"-", "-", "-", "\n", "x", "\n", "-", "-",
    "-", "\n", "y">> }

\* the editor holds an article and a tag list; the uploader holds a file with
\* the same fields
InitRoundTrip ==
  /\ InitHandlers
  /\ schema = [tagNameUnique |-> FALSE, assocPk |-> FALSE]
  /\ markdown = <<>>
  /\ filename = NoFilename
  /\ derived = NotDerived
  /\ \E t \in FieldTexts, e \in ExcerptTexts, c \in CategoryTexts,
        d \in DateTexts, l \in TagTextLists, b \in TrimmedBodies :
       /\ article = PageArticle(1, t, e, c, d, b, JsValue("undefined", <<>>,
           <<>>))
       /\ articleTags = l
       /\ files = [f \in {"f1"} |->
                     ProcessedFile(<<"t", "e", "s", "t", ".", "m", "d">>, b,
                        [isNull |-> FALSE, title |-> t, excerpt |-> e,
                         category |-> c, date |-> d, tags |-> ArrayOf(l)],
                        "pending")]
  /\ fetches = <<>>
  /\ isProcessing = FALSE
  /\ saveAll = NoSaveAll
  /\ newTag = <<>>

\* Editor.handleSave: fullContent = generateFrontmatter({...article, tags:
\* articleTags}) + article.markdown_content
EditorFullContent ==
  /\ markdown = <<>>
  /\ \E now \in Clock :
       markdown' = generateFrontmatter([article EXCEPT !.tags = ArrayOf(articleTags)],
                                       now)
                     \o article.markdown_content
  /\ UNCHANGED <<store, schema, pc, req, save, local, calls, resp, outcome,
                 saves, filename, derived>>
  /\ UNCHANGED page

\* FileUploader.saveToDatabase: the body of the request to the endpoint
UploaderFullContent ==
  /\ markdown = <<>>
  /\ \E f \in DOMAIN files :
       /\ markdown' = FullContent(files[f])
       /\ filename' = Filename(files[f].name)
  /\ UNCHANGED <<store, schema, pc, req, save, local, calls, resp, outcome,
                 saves, derived>>
  /\ UNCHANGED page

\* parseFrontmatter(fullContent)
ParseBack ==
  /\ markdown # <<>>
  /\ ~derived.done
  /\ LET parsed == parseFrontmatter(markdown)
     IN  derived' = [NotDerived EXCEPT !.done = TRUE,
                                       !.frontmatter = parsed.frontmatter,
                                       !.content = parsed.content]
  /\ UNCHANGED <<store, schema, pc, req, save, local, calls, resp, outcome,
                 saves, markdown, filename>>
  /\ UNCHANGED page

NextRoundTrip == EditorFullContent \/ UploaderFullContent \/ ParseBack

SpecRoundTrip == InitRoundTrip /\ [][NextRoundTrip]_vars

----------------------------------------------------------------------------
\* Properties

\* the endpoint invocation r has answered with a success response
Succeeded(r) == pc[r] = "done" /\ resp[r] # <<>> /\ resp[r][1].success

NamesOf(rows) == {t.name : t \in rows}

RowsNamed(table, n) == {t \in table : t.name = n}

Completed(p, op, results) ==
  \E i \in DOMAIN calls[p] : calls[p][i].op = op /\ calls[p][i].result \in results

\* C2: when two concurrent invocations have both read "not found" for the
\* same name (it is in the newTags of both) and the store has answered the
\* tag insert of both, then a store that does not enforce unique names holds
\* two or more rows with that name, and a store that enforces them has
\* rejected the insert of at least one of the two, which ended with an error
\* response.
C2_OverlappingNewTag ==
  \A n \in Names : \A r, o \in Runs :
    ( /\ r # o
      /\ n \in SeqToSet(local[r].newTags) /\ n \in SeqToSet(local[o].newTags)
      /\ Completed(r, "tagInsert", {"ok", "rejected"})
      /\ Completed(o, "tagInsert", {"ok", "rejected"}) )
    => IF schema.tagNameUnique
         THEN \E q \in {r, o} :
                /\ Completed(q, "tagInsert", {"rejected"})
                /\ pc[q] = "done"
                /\ resp[q] = <<ErrorResponse(500, "backend error")>>
         ELSE /\ Cardinality(RowsNamed(tags, n)) >= 2
              /\ Completed(r, "tagInsert", {"ok"})
              /\ Completed(o, "tagInsert", {"ok"})

\* Both invocations asked for the new name "a" alone, both read "not found",
\* both inserted, and the tags table holds two rows named "a".
C2_Witness ==
  /\ ~schema.tagNameUnique
  /\ \A r \in Runs : local[r].newTags = <<"a">> /\ Succeeded(r)
  /\ Cardinality(RowsNamed(tags, "a")) = 2

\* The same race under a store that enforces unique names: both read "not
\* found", one insert was accepted and the other rejected.
C2_WitnessUnique ==
  /\ schema.tagNameUnique
  /\ \A r \in Runs : local[r].newTags = <<"a">>
  /\ \E r, o \in Runs : /\ Succeeded(r)
                        /\ Completed(o, "tagInsert", {"rejected"})
                        /\ pc[o] = "done" /\ ~resp[o][1].success

StoreNow == [articles |-> articles, tags |-> tags,
             article_tags |-> article_tags, next |-> nextArticleId]

InitStore == [articles |-> InitArticles, tags |-> InitTags,
              article_tags |-> InitArticleTags, next |-> 2]

\* the store after one invocation of the endpoint with request q, run alone
\* on store st with no backend fault
IngestAlone(st, q) ==
  LET row == ArticleData(st.next, q.title)
      existing == SelectTagsIn(st.tags, q.tags)
      new == NewTags(q.tags, existing)
      inserted == IF Len(new) > 0 THEN InsertedTags(st.tags, new) ELSE {}
      withArticle == [st EXCEPT !.articles = @ \cup {row}, !.next = @ + 1]
  IN  IF Len(q.tags) = 0 \/ (Len(new) > 0 /\ ~TagInsertAccepted(st.tags, new))
        THEN withArticle
        ELSE [withArticle EXCEPT
                !.tags = @ \cup inserted,
                !.article_tags =
                   @ (+) SetToBag(Relations(row.id, existing \cup inserted))]

\* a store up to ids: articles by content, tags by name, associations as
\* (article title, tag name)
ByName(st) ==
  [articles |-> {[title |-> a.title, status |-> a.status,
                  html_content |-> a.html_content] : a \in st.articles},
   tags |-> NamesOf(st.tags),
   assoc |-> {<<(CHOOSE a \in st.articles : a.id = r.article_id).title,
                (CHOOSE t \in st.tags : t.id = r.tag_id).name>> :
                r \in BagToSet(st.article_tags)}]

\* the invocation passed validation and none of its backend calls met a fault
RanWithoutFault(r) ==
  /\ pc[r] = "done"
  /\ calls[r] # <<>>
  /\ \A i \in DOMAIN calls[r] : calls[r][i].result # "fault"

\* the requested names that have no row in the initial store
NewNames(q) == SeqToSet(q.tags) \ NamesOf(InitTags)

IndependentOutcome(r, o) ==
  /\ Succeeded(r) /\ Succeeded(o)
  /\ ByName(StoreNow) = ByName(IngestAlone(IngestAlone(InitStore, req[r]), req[o]))
  /\ \A n \in Names : Cardinality(RowsNamed(tags, n)) <= 1

\* C3: two invocations with different documents whose sets of new tag names
\* are disjoint, run in any interleaving with no backend fault, both succeed,
\* leave the articles, the tags by name and the associations that running
\* them one after the other leaves, and no name has two tag rows.
C3_IndependentIngestions ==
  \A r, o \in Runs :
    ( /\ r # o
      /\ RanWithoutFault(r) /\ RanWithoutFault(o)
      /\ req[r].title # req[o].title
      /\ NewNames(req[r]) \cap NewNames(req[o]) = {} )
    => IndependentOutcome(r, o)

\* C3 for documents whose tag lists name no tag twice (not the claim: shows
\* that a list that names a new tag twice is what breaks C3).
C3_WithoutRepeatedNames ==
  \A r, o \in Runs :
    ( /\ r # o
      /\ RanWithoutFault(r) /\ RanWithoutFault(o)
      /\ req[r].title # req[o].title
      /\ NewNames(req[r]) \cap NewNames(req[o]) = {}
      /\ NoDuplicates(req[r].tags) /\ NoDuplicates(req[o].tags) )
    => IndependentOutcome(r, o)

TagStep == {"tagSelect", "tagInsert", "relInsert"}

\* C4: a tag select, tag insert or association insert of an endpoint
\* invocation that returned an error is the last backend call of the
\* invocation, which has ended with one error response; its article row is in
\* the store and has no association row.
C4_NoCompensation ==
  \A r \in Runs : \A i \in DOMAIN calls[r] :
    (calls[r][i].op \in TagStep /\ calls[r][i].result \in {"fault", "rejected"})
    => /\ i = Len(calls[r])
       /\ pc[r] = "done"
       /\ Len(resp[r]) = 1
       /\ ~resp[r][1].success /\ resp[r][1].error # "" /\ resp[r][1].status = 500
       /\ local[r].article \in articles
       /\ RowsOfArticle(article_tags, local[r].article.id) = {}

\* An invocation whose association insert failed after its tag insert had
\* added a row: the article and the new tag stay, with no association.
C4_Witness ==
  \E r \in Runs :
    /\ Completed(r, "tagInsert", {"ok"})
    /\ Completed(r, "relInsert", {"fault"})
    /\ local[r].article \in articles
    /\ pc[r] = "done"

\* C5: the handling of a POST whose JSON body has a markdown field that is
\* missing, empty or not a string is one step that answers 400 with an error
\* message, issues no backend call and leaves the store as it is.
C5_ValidationRejects ==
  [][\A r \in Runs :
       ( /\ pc[r] = "idle" /\ pc'[r] # "idle"
         /\ req'[r].method = "POST" /\ req'[r].json
         /\ \/ req'[r].markdown.type # "string"
            \/ ~req'[r].markdown.truthy )
       => /\ pc'[r] = "done"
          /\ Len(resp'[r]) = 1
          /\ resp'[r][1].status = 400
          /\ resp'[r][1].error # "" /\ ~resp'[r][1].success
          /\ calls'[r] = <<>>
          /\ store' = store
    ]_vars

\* A request with a number as markdown was answered 400 while the other
\* invocation created an article.
C5_Witness ==
  \E r, o \in Runs :
    /\ pc[r] = "done" /\ req[r].markdown.type = "number" /\ req[r].markdown.truthy
    /\ resp[r][1].status = 400
    /\ Succeeded(o)

CallRank == [articleInsert |-> 1, tagSelect |-> 2, tagInsert |-> 3, relInsert |-> 4]

\* C6: the backend calls of an endpoint invocation are, in this order, the
\* article insert, the tag select, the tag insert and the association insert,
\* each at most once; a tag insert or association insert follows a tag
\* select; every call but the last has returned without error, so that at
\* most one call is pending.
C6_CallOrder ==
  \A r \in Runs : \A i \in DOMAIN calls[r] :
    /\ calls[r][i].op \in DOMAIN CallRank
    /\ i = 1 => calls[r][i].op = "articleInsert"
    /\ i < Len(calls[r]) => calls[r][i].result = "ok"
    /\ \A j \in DOMAIN calls[r] :
         i < j => CallRank[calls[r][i].op] < CallRank[calls[r][j].op]
    /\ calls[r][i].op \in {"tagInsert", "relInsert"} =>
         \E j \in 1..(i - 1) : calls[r][j].op = "tagSelect"
    /\ (i = Len(calls[r]) /\ calls[r][i].result = "pending") <=>
         (pc[r] = calls[r][i].op)

\* An invocation that made all four calls, each returning without error.
C6_Witness ==
  \E r \in Runs :
    /\ Len(calls[r]) = 4
    /\ \A i \in 1..4 : calls[r][i].result = "ok"

\* C7: an endpoint invocation has sent no response until it is done and
\* exactly one when it is done, and one that is not done can always take its
\* next step (no call is awaited that the store cannot answer).  The response of a POST is a success (status
\* 200, the id, title and status of the article row, the title and tag list
\* of the document) only if every backend call of the invocation returned
\* without error, the article row is in the store and every name of the tag
\* list has a tag row associated with that article; otherwise it carries an
\* error message and a status outside 200..299.
C7_OneResponse ==
  \A r \in Runs :
    /\ Len(resp[r]) = (IF pc[r] = "done" THEN 1 ELSE 0)
    /\ pc[r] \notin {"idle", "done"} => ENABLED Ingest(r)
    /\ (pc[r] = "done" /\ req[r].method = "POST") =>
         LET a == resp[r][1] IN
         IF a.success
           THEN /\ a.status = 200
                /\ \A i \in DOMAIN calls[r] : calls[r][i].result = "ok"
                /\ \E row \in articles :
                     /\ row.id = a.article
                     /\ row.title = a.title /\ a.title = req[r].title
                     /\ row.status = a.articleStatus
                /\ a.tags = req[r].tags
                /\ \A n \in SeqToSet(req[r].tags) : \E t \in RowsNamed(tags, n) :
                     BagIn([article_id |-> a.article, tag_id |-> t.id], article_tags)
           ELSE /\ a.status \notin 200..299
                /\ a.error # ""

\* One invocation answered success for a document with two tags, the other
\* answered 500 after its tag insert was rejected or failed.
C7_Witness ==
  \E r, o \in Runs :
    /\ Succeeded(r) /\ Len(req[r].tags) = 2
    /\ pc[o] = "done" /\ req[o].method = "POST" /\ resp[o][1].status = 500
    /\ Completed(o, "tagInsert", {"fault", "rejected"})

\* C8: every row a step adds to the articles table (in Spec only the
\* endpoint adds rows) has status draft and html_content null.
C8_CreatedAsDraft ==
  [][\A a \in articles' \ articles :
       a.status = "draft" /\ a.html_content = "null"]_vars

\* Both invocations have created their article row.
C8_Witness ==
  /\ \A r \in Runs : local[r].article \in articles /\ local[r].article.id >= 2
  /\ Cardinality(articles) = 3

\* the names of the tags that table `assoc` associates with article id
TagNamesOf(assoc, id) ==
  {t.name : t \in {u \in tags : \E r \in RowsOfArticle(assoc, id) : r.tag_id = u.id}}

\* the save s returns in this step without error
SaveReturns(s) == pc[s] # "done" /\ pc'[s] = "done" /\ outcome'[s] = "saved"

\* C9: when a save of the editor, of the settings modal or of the manager's
\* file replacement returns without error (saves run one after the other),
\* the tags associated with the article are exactly the names of the new tag
\* list, each association row once.
C9_FullReplacement ==
  [][\A s \in Savers :
       SaveReturns(s) =>
         /\ TagNamesOf(article_tags', local[s].article.id) = SeqToSet(save[s].tags)
         /\ \A r \in RowsOfArticle(article_tags', local[s].article.id) :
              CopiesIn(r, article_tags') = 1
    ]_vars

\* C9 for the editor and the settings modal alone (not the claim: shows that
\* the manager's file replacement is what breaks C9).
C9_EditorAndSettings ==
  [][\A s \in Savers :
       (SaveReturns(s) /\ save[s].handler \in {"editor", "settings"}) =>
         /\ TagNamesOf(article_tags', local[s].article.id) = SeqToSet(save[s].tags)
         /\ \A r \in RowsOfArticle(article_tags', local[s].article.id) :
              CopiesIn(r, article_tags') = 1
    ]_vars

C11_DeleteOrder ==
  [][\A s \in SerialSavers :
       (pc[s] = "articleDelete" /\ pc'[s] # pc[s]) =>
          /\ calls[s][1].op = "assocDelete"
          /\ calls[s][2].op = "articleDelete"
          /\ (articles' # articles) =>
               /\ local[s].article.id \notin {a.id : a \in articles'}
               /\ RowsOfArticle(article_tags', local[s].article.id) = {}
    ]_vars

\* (what holds of the code) the same, for a deleteArticle whose delete of the
\* association rows returned without error
C11_WhenAssocDeleteSucceeded ==
  [][\A s \in SerialSavers :
       (pc[s] = "articleDelete" /\ pc'[s] # pc[s]
          /\ calls[s][1].result = "ok") =>
          /\ calls[s][1].op = "assocDelete"
          /\ calls[s][2].op = "articleDelete"
          /\ (articles' # articles) =>
               /\ local[s].article.id \notin {a.id : a \in articles'}
               /\ RowsOfArticle(article_tags', local[s].article.id) = {}
    ]_vars

\* An article row is gone and an association row still names it.
C11_Orphaned ==
  \E r \in BagToSet(article_tags) : r.article_id \notin {a.id : a \in articles}

\* C16: a step of an endpoint invocation changes the tags or article_tags
\* table only if the invocation's derived tag list is non-empty and its
\* article insert has returned the created row: an invocation with an empty
\* list never changes either table, the first call of the tag step is issued
\* in the step that creates the article row, and every association row a
\* step adds carries the id of the article row that the same invocation
\* created.
C16_TagStepAfterArticle ==
  [][\A r \in Runs :
       (pc'[r] # pc[r]) =>
          /\ (Len(req'[r].tags) = 0 \/ pc[r] \in {"idle", "articleInsert"}) =>
                (tags' = tags /\ article_tags' = article_tags)
          /\ (pc'[r] = "tagSelect") =>
                /\ pc[r] = "articleInsert"
                /\ Len(local'[r].tags) > 0
                /\ articles' \ articles = {local'[r].article}
          /\ (pc[r] \in {"tagSelect", "tagInsert", "relInsert"}) =>
                /\ local'[r].article = local[r].article
                /\ local[r].article \in articles
                /\ Len(local[r].tags) > 0
          /\ \A row \in BagToSet(article_tags') :
                CopiesIn(row, article_tags') > CopiesIn(row, article_tags) =>
                   /\ pc[r] = "relInsert"
                   /\ row.article_id = local[r].article.id
    ]_vars

\* One invocation succeeded with an empty tag list and has no association
\* row; the other succeeded with two tags and has two association rows.
C16_Witness ==
  \E r, o \in Runs :
    /\ Succeeded(r) /\ req[r].tags = <<>>
    /\ RowsOfArticle(article_tags, local[r].article.id) = {}
    /\ Succeeded(o) /\ Len(req[o].tags) = 2
    /\ Cardinality(RowsOfArticle(article_tags, local[o].article.id)) = 2

\* a line that is `---` followed by nothing but whitespace
DelimiterLine(line) == StartsWith(line, Dashes) /\ Trim(line) = Dashes

\* the text starts with a `---` line
LeadingDelimiterLine(text) ==
  LET lines == Split(text, "\n")
  IN  Len(lines) >= 2 /\ DelimiterLine(lines[1])

\* some later line of the text is a `---` line
ClosingDelimiterLine(text) ==
  LET lines == Split(text, "\n")
  IN  \E k \in 2..Len(lines) : DelimiterLine(lines[k])

\* C12: for a request body whose text has no leading `---` line, or has one
\* but no later `---` line, parseFrontmatter returned no frontmatter (null)
\* and the whole text, character for character, as content.
C12_NoBlockIsIdentity ==
  (derived.done /\ ~(LeadingDelimiterLine(markdown)
                       /\ ClosingDelimiterLine(markdown))) =>
     /\ derived.frontmatter.isNull
     /\ derived.content = markdown

\* A text with a leading `---` line, no closing one and whitespace at its
\* end was returned whole.
C12_Witness ==
  /\ derived.done
  /\ LeadingDelimiterLine(markdown) /\ ~ClosingDelimiterLine(markdown)
  /\ Trim(markdown) # markdown
  /\ derived.frontmatter.isNull /\ derived.content = markdown

\* the lines of the frontmatter block of a text that has one
BlockLines(text) == Split(FrontmatterMatch(text).frontmatterStr, "\n")

\* the text of a line up to its first ':' (the whole line if it has none)
RawKey(line) ==
  LET colons == {i \in DOMAIN line : line[i] = ":"}
  IN  IF colons = {} THEN line ELSE SubSeq(line, 1, Min(colons) - 1)

\* the text of a line after its first ':', trimmed, without one leading and
\* one trailing double quote
RawValue(line) ==
  LET colons == {i \in DOMAIN line : line[i] = ":"}
      rest == IF colons = {} THEN <<>>
              ELSE Trim(SubSeq(line, Min(colons) + 1, Len(line)))
      a == IF rest # <<>> /\ Head(rest) = "\"" THEN Tail(rest) ELSE rest
  IN  IF a # <<>> /\ a[Len(a)] = "\"" THEN SubSeq(a, 1, Len(a) - 1) ELSE a

LinesWithKey(lines, key) == {i \in DOMAIN lines : RawKey(lines[i]) = key}

\* the text is an array literal of strings: [ "..." , "..." ]
IsListLiteral(text) ==
  LET parsed == JsonParse(text)
  IN  /\ parsed.ok
      /\ parsed.value.kind = "array"
      /\ \A k \in DOMAIN parsed.value.items :
            parsed.value.items[k].kind = "string"

ScalarsFromLines(frontmatter, lines) ==
  /\ LinesWithKey(lines, <<"t", "i", "t", "l", "e">>) # {} =>
       frontmatter.title = RawValue(lines[Max(LinesWithKey(lines, <<"t", "i",
           "t", "l", "e">>))])
  /\ LinesWithKey(lines, <<"e", "x", "c", "e", "r", "p", "t">>) # {} =>
       frontmatter.excerpt = RawValue(lines[Max(LinesWithKey(lines, <<"e",
           "x", "c", "e", "r", "p", "t">>))])
  /\ LinesWithKey(lines, <<"c", "a", "t", "e", "g", "o", "r", "y">>) # {} =>
       frontmatter.category = RawValue(lines[Max(LinesWithKey(lines, <<"c",
           "a", "t", "e", "g", "o", "r", "y">>))])
  /\ LinesWithKey(lines, <<"d", "a", "t", "e">>) # {} =>
       frontmatter.date = RawValue(lines[Max(LinesWithKey(lines, <<"d", "a",
           "t", "e">>))])

\* C13: for a request body with a frontmatter block, each of title, excerpt,
\* category and date that has a line equals the text after the first ':' of
\* its (last) line, trimmed and without one leading and one trailing double
\* quote; tags equals the list a valid list literal denotes; and a tags value
\* that is not a valid list literal gives the empty list.
C13_FieldsFromLines ==
  (derived.done /\ ~derived.frontmatter.isNull) =>
     LET lines == BlockLines(markdown)
         tagLines == LinesWithKey(lines, <<"t", "a", "g", "s">>)
         value == ValueOf(lines[Max(tagLines)])
     IN  /\ ScalarsFromLines(derived.frontmatter, lines)
         /\ tagLines # {} =>
              /\ derived.frontmatter.tags.kind = "array"
              /\ IsListLiteral(value) =>
                   derived.frontmatter.tags = JsonParse(value).value
              /\ ~IsListLiteral(value) =>
                   derived.frontmatter.tags = EmptyList

\* (what holds of the code) the same, where a tags value that is not a list
\* literal gives whatever JSON.parse returns for it, and the empty list only
\* if JSON.parse throws
C13_TagsAsJsonParseReturns ==
  (derived.done /\ ~derived.frontmatter.isNull) =>
     LET lines == BlockLines(markdown)
         tagLines == LinesWithKey(lines, <<"t", "a", "g", "s">>)
         value == ValueOf(lines[Max(tagLines)])
     IN  /\ ScalarsFromLines(derived.frontmatter, lines)
         /\ tagLines # {} =>
              /\ JsonParse(value).ok =>
                   derived.frontmatter.tags = JsonParse(value).value
              /\ ~JsonParse(value).ok =>
                   derived.frontmatter.tags = EmptyList

\* The tags of a parsed frontmatter block are a string, not a list.
C13_TagsNotAList ==
  /\ derived.done /\ ~derived.frontmatter.isNull
  /\ derived.frontmatter.tags.kind = "string"
  /\ derived.tags.kind = "string"

Recognised == { <<"t", "i", "t", "l", "e">>, <<"e", "x", "c", "e", "r", "p",
    "t">>, <<"c", "a", "t", "e", "g", "o", "r", "y">>, <<"d", "a", "t",
    "e">>, <<"t", "a", "g", "s">> }

\* the sequence without its i-th element
Without(seq, i) == SubSeq(seq, 1, i - 1) \o SubSeq(seq, i + 1, Len(seq))

\* C14: for a request body with a frontmatter block, taking a line whose key
\* is not title, excerpt, category, date or tags out of the block gives the
\* same frontmatter; each of the five fields that has no line has its default
\* (empty string, empty list); and content is the trimmed text after a `---`
\* line of the body.
C14_UnrecognisedAndDefaults ==
  (derived.done /\ ~derived.frontmatter.isNull) =>
     LET lines == BlockLines(markdown)
         fm == derived.frontmatter
     IN  /\ \A i \in DOMAIN lines :
              RawKey(lines[i]) \notin Recognised =>
                 ParseLines(DefaultFrontmatter, Without(lines, i)) = fm
         /\ LinesWithKey(lines, <<"t", "i", "t", "l",
             "e">>) = {} => fm.title = <<>>
         /\ LinesWithKey(lines, <<"e", "x", "c", "e", "r", "p",
             "t">>) = {} => fm.excerpt = <<>>
         /\ LinesWithKey(lines, <<"c", "a", "t", "e", "g", "o", "r",
             "y">>) = {} => fm.category = <<>>
         /\ LinesWithKey(lines, <<"d", "a", "t", "e">>) = {} => fm.date = <<>>
         /\ LinesWithKey(lines, <<"t", "a", "g",
             "s">>) = {} => fm.tags = EmptyList
         /\ derived.content = Trim(derived.content)
         /\ \E d \in DOMAIN markdown :
              /\ markdown[d] = "\n"
              /\ \E c \in 1..(d - 3) :
                   /\ markdown[c] = "\n"
                   /\ DelimiterLine(SubSeq(markdown, c + 1, d - 1))
              /\ derived.content = Trim(SubSeq(markdown, d + 1,
                  Len(markdown)))

\* A block with a recognised line and two unrecognised ones (among them a
\* title key with a space before it) and a body with whitespace around it.
C14_Witness ==
  /\ derived.done /\ ~derived.frontmatter.isNull
  /\ BlockLines(markdown) = << <<" ", "t", "i", "t", "l", "e", ":", " ",
      "T">>, <<"a", "u", "t", "h", "o", "r", ":", " ", "m", "e">> >>
  /\ derived.frontmatter = DefaultFrontmatter
  /\ derived.content = <<"a", " ", " ", "b">>

\* C15: the derived title is the frontmatter title if there is one and it is
\* not empty, else the filename without a trailing .md or .markdown if that
\* is not empty, else "Untitled Article"; excerpt and category are the
\* frontmatter value if not empty, else "No excerpt provided" and
\* "Uncategorized"; date is the frontmatter value if not empty, else the
\* current time; tags is the frontmatter value, else the empty list.
C15_Derivation ==
  derived.done =>
     LET fm == derived.frontmatter
         name == filename.text
         stem == IF ~filename.present THEN <<>>
                 ELSE IF EndsWith(name, <<".", "m", "d">>) THEN SubSeq(name,
                     1, Len(name) - 3)
                 ELSE IF EndsWith(name, <<".", "m", "a", "r", "k", "d", "o",
                     "w", "n">>) THEN SubSeq(name, 1, Len(name) - 9)
                 ELSE name
         has(field) == ~fm.isNull /\ field # <<>>
     IN  /\ derived.title = IF has(fm.title) THEN fm.title
                            ELSE IF stem # <<>> THEN stem
                            ELSE <<"U", "n", "t", "i", "t", "l", "e", "d",
                                " ", "A", "r", "t", "i", "c", "l", "e">>
         /\ derived.excerpt = IF has(fm.excerpt) THEN fm.excerpt
                              ELSE <<"N", "o", " ", "e", "x", "c", "e", "r",
                                  "p", "t", " ", "p", "r", "o", "v", "i",
                                  "d", "e", "d">>
         /\ derived.category = IF has(fm.category) THEN fm.category
                               ELSE <<"U", "n", "c", "a", "t", "e", "g", "o",
                                   "r", "i", "z", "e", "d">>
         /\ IF has(fm.date) THEN derived.date = fm.date
                            ELSE derived.date \in Clock
         /\ derived.tags = IF ~fm.isNull /\ Truthy(fm.tags) THEN fm.tags
                           ELSE EmptyList

\* A block whose title line is empty: the title is the filename's stem, the
\* excerpt and category are the placeholders, the date is the current time.
C15_Witness ==
  /\ derived.done /\ ~derived.frontmatter.isNull
  /\ derived.frontmatter.title = <<>>
  /\ filename = Filename(<<"n", "o", "t", "e", "s", ".", "m", "a", "r", "k",
      "d", "o", "w", "n">>)
  /\ derived.title = <<"n", "o", "t", "e", "s">>
  /\ derived.excerpt = <<"N", "o", " ", "e", "x", "c", "e", "r", "p", "t",
      " ", "p", "r", "o", "v", "i", "d", "e", "d">>
  /\ derived.category = <<"U", "n", "c", "a", "t", "e", "g", "o", "r", "i",
      "z", "e", "d">>
  /\ derived.date \in Clock

\* C17: the slug of the derived title is a fixed point of generateSlug, and
\* the title "Hello, World!  Test" has the slug "hello-world-test".
C17_SlugIdempotent ==
  derived.done =>
     /\ derived.slug = generateSlug(derived.title)
     /\ generateSlug(derived.slug) = derived.slug
     /\ derived.title = <<"H", "e", "l", "l", "o", ",", " ", "W", "o", "r",
         "l", "d", "!", " ", " ", "T", "e", "s", "t">> =>
          derived.slug = <<"h", "e", "l", "l", "o", "-", "w", "o", "r", "l",
              "d", "-", "t", "e", "s", "t">>

\* The title of the example was derived, with its slug.
C17_Witness ==
  /\ derived.done
  /\ derived.title = <<"H", "e", "l", "l", "o", ",", " ", "W", "o", "r", "l",
      "d", "!", " ", " ", "T", "e", "s", "t">>
  /\ derived.slug = <<"h", "e", "l", "l", "o", "-", "w", "o", "r", "l", "d",
      "-", "t", "e", "s", "t">>

SlugAlphabet ==
  {LowerCase[i] : i \in DOMAIN LowerCase} \cup DigitChars \cup {"-"}

\* C18: the derived slug has only the characters a-z, 0-9 and '-', no two
\* hyphens next to each other, and no hyphen at its beginning or end.
C18_SlugShape ==
  derived.done =>
     LET slug == derived.slug IN
     /\ \A i \in DOMAIN slug : slug[i] \in SlugAlphabet
     /\ \A i \in 1..(Len(slug) - 1) : ~(slug[i] = "-" /\ slug[i + 1] = "-")
     /\ slug # <<>> => (slug[1] # "-" /\ slug[Len(slug)] # "-")

\* (what holds of the code) the characters and the hyphen runs are as
\* claimed; a hyphen at either end stays
C18_SlugCharacters ==
  derived.done =>
     LET slug == derived.slug IN
     /\ \A i \in DOMAIN slug : slug[i] \in SlugAlphabet
     /\ \A i \in 1..(Len(slug) - 1) : ~(slug[i] = "-" /\ slug[i + 1] = "-")

\* A slug that ends with a hyphen: the title "b !" gave "b-".
C18_HyphenAtEnd ==
  /\ derived.done
  /\ derived.title = <<"b", " ", "!">>
  /\ derived.slug = <<"b", "-">>

\* the pieces of text.split(/\s+/): the words, one empty piece before a
\* leading run of whitespace and one after a trailing run
PieceCount(text) ==
  LET words == {i \in DOMAIN text :
                  ~IsSpace(text[i]) /\ (i = 1 \/ IsSpace(text[i - 1]))}
  IN  IF text = <<>> THEN 1
      ELSE Cardinality(words)
             + (IF IsSpace(text[1]) THEN 1 ELSE 0)
             + (IF IsSpace(text[Len(text)]) THEN 1 ELSE 0)

\* C19: the derived read time is "<N> min read" with N the least number such
\* that the body has at most 200 * N pieces; N is at least 1; a body of 400
\* words has "2 min read" and the empty body "1 min read".
C19_ReadTime ==
  derived.done =>
     LET k == PieceCount(derived.content) IN
     /\ k >= 1
     /\ \E N \in 1..k :
          /\ wordsPerMinute * (N - 1) < k /\ k <= wordsPerMinute * N
          /\ derived.readTime = Digits(N) \o <<" ", "m", "i", "n", " ", "r",
              "e", "a", "d">>
     /\ derived.readTime # <<"0", " ", "m", "i", "n", " ", "r", "e", "a",
         "d">>
     /\ derived.content = Words(400) => derived.readTime = <<"2", " ", "m",
         "i", "n", " ", "r", "e", "a", "d">>
     /\ derived.content = <<>> => derived.readTime = <<"1", " ", "m", "i",
         "n", " ", "r", "e", "a", "d">>

\* A body of 400 words (after a frontmatter block) has "2 min read".
C19_Witness ==
  /\ derived.done /\ ~derived.frontmatter.isNull
  /\ derived.content = Words(400)
  /\ derived.readTime = <<"2", " ", "m", "i", "n", " ", "r", "e", "a", "d">>

\* An empty body has "1 min read".
C19_WitnessEmpty ==
  /\ derived.done
  /\ derived.content = <<>>
  /\ derived.readTime = <<"1", " ", "m", "i", "n", " ", "r", "e", "a", "d">>

\* C20: the document of the scenario, sent with the filename "test.md" to a
\* store with no tags: if no backend call fails the invocation succeeds, and
\* when it has succeeded the store has one article, with title "T", excerpt
\* "E", category "C", slug "t" and status draft, the two tag rows "x" and "y",
\* and exactly the two association rows that link the article to them.
C20_Scenario ==
  (markdown = ScenarioDocument /\ filename = ScenarioFilename
     /\ pc["r1"] = "done" /\ calls["r1"] # <<>>
     /\ \A i \in DOMAIN calls["r1"] : calls["r1"][i].result # "fault") =>
     /\ Succeeded("r1")
     /\ \E a \in articles :
          /\ articles = {a}
          /\ a.title = <<"T">> /\ a.excerpt = <<"E">> /\ a.category = <<"C">>
          /\ a.slug = <<"t">> /\ a.status = "draft"
          /\ a.date = <<"2", "0", "2", "4", "-", "0", "1", "-", "0", "1">>
          /\ a.markdown_content = <<"B", "o", "d", "y", " ", "t", "e", "x",
              "t", " ", "h", "e", "r", "e", ".">>
          /\ NamesOf(tags) = { <<"x">>, <<"y">> }
          /\ Cardinality(tags) = 2
          /\ article_tags = SetToBag(Relations(a.id, tags))

\* The scenario's run has succeeded and the store has its two tags.
C20_Witness ==
  /\ markdown = ScenarioDocument /\ filename = ScenarioFilename
  /\ Succeeded("r1")
  /\ Cardinality(tags) = 2
  /\ BagCardinality(article_tags) = 2

\* the title, excerpt, category, tags and body read back are the ones written
ReadBackButDate(fm, content) ==
  /\ ~fm.isNull
  /\ fm.title = article.title
  /\ fm.excerpt = article.excerpt
  /\ fm.category = article.category
  /\ fm.tags = ArrayOf(articleTags)
  /\ content = article.markdown_content

\* C21: the header written from a title, excerpt, category, date, tag list
\* and trimmed body (by the editor's generateFrontmatter or by the uploader),
\* followed by the body and read by parseFrontmatter, gives the same title,
\* excerpt, category, date, tag list and body.
C21_RoundTrip ==
  derived.done =>
     /\ ReadBackButDate(derived.frontmatter, derived.content)
     /\ derived.frontmatter.date = article.date

\* C21 as amended: the same, but where the editor's generateFrontmatter was
\* given an empty date, the date read back is the time of writing.
C21_RoundTripDated ==
  derived.done =>
     /\ ReadBackButDate(derived.frontmatter, derived.content)
     /\ IF ~filename.present /\ article.date = <<>>
          THEN derived.frontmatter.date \in Clock
          ELSE derived.frontmatter.date = article.date

\* The editor's header with a title in quotes, a tag with a quote and one
\* with a comma and a body that holds `---` lines was read back.
C21_Witness ==
  /\ derived.done /\ ~filename.present
  /\ article.title = <<"\"", "a", "\"">>
  /\ article.date # <<>>
  /\ articleTags = << <<"a", "\"", "b">>, <<"a", ",", "b">> >>
  /\ article.markdown_content = <<"-", "-", "-", "\n", "x", "\n", "-", "-",
      "-", "\n", "y">>
  /\ derived.frontmatter.title = <<"\"", "a", "\"">>
  /\ derived.frontmatter.tags = ArrayOf(articleTags)
  /\ derived.content = article.markdown_content

\* The uploader's text for the same fields was read back.
C21_WitnessUploader ==
  /\ derived.done /\ filename.present
  /\ files["f1"].frontmatter.title = <<" ", "a", " ">>
  /\ derived.frontmatter.title = <<" ", "a", " ">>
  /\ derived.frontmatter.date = <<>>
  /\ derived.frontmatter.tags = ArrayOf(<< <<"a", "\\">>, <<"]", ":",
      " ">> >>)


----------------------------------------------------------------------------
\* Save All and Save on the uploader page

\* the requests saveAllFiles has made
BySaveAll == SelectSeq(fetches, LAMBDA r : r.by = "saveAll")

\* the files saveAllFiles took when Save All was clicked
Taken == {saveAll.pendingFiles[k] : k \in DOMAIN saveAll.pendingFiles}

\* the file is off the list, or its status is success or error
Finished(f) == f \in DOMAIN files => files[f].status \in {"success", "error"}

\* saveAllFiles has submitted the first i files it took, in order, and every
\* request but the one it is waiting for has returned
OneAfterTheOther ==
  saveAll.at # "idle" =>
    /\ Len(BySaveAll) = saveAll.i
    /\ \A k \in 1..saveAll.i :
         /\ BySaveAll[k].file = saveAll.pendingFiles[k]
         /\ (k < saveAll.i \/ saveAll.at = "delay")
              => BySaveAll[k].result # "pending"

\* C22: after Save All is clicked, every file that was pending at that moment
\* is submitted, one after the other, and (while it is on the list) eventually
\* has status success or error, and isProcessing is eventually false again,
\* provided every request completes or fails.
C22_SaveAllCompletes ==
  /\ [][~isProcessing /\ isProcessing'
          => Taken' = {f \in DOMAIN files : files[f].status = "pending"}]_vars
  /\ []OneAfterTheOther
  /\ \A f \in FileIds :
       (f \in Taken) ~> (saveAll.at = "idle" /\ Finished(f)
                           /\ \E k \in DOMAIN fetches :
                                fetches[k] = [file |-> f, by |-> "saveAll",
                                              result |-> fetches[k].result])
  /\ isProcessing ~> ~isProcessing

\* Save All has run over two files: one was saved, the other's request failed
C22_Witness ==
  /\ ~isProcessing
  /\ saveAll = NoSaveAll
  /\ Len(fetches) = 2
  /\ fetches[1] = [file |-> 1, by |-> "saveAll", result |-> "ok"]
  /\ fetches[2] = [file |-> 2, by |-> "saveAll", result |-> "failed"]
  /\ DOMAIN files = {1, 2}
  /\ files[1].status = "success"
  /\ files[2].status = "error"

\* C23: a file whose status is processing or success is not submitted again,
\* whatever the order of the clicks on Save and Save All, so that no file has
\* two requests the endpoint answered with success.
C23_SubmittedOnce ==
  [][/\ \A k \in DOMAIN fetches' \ DOMAIN fetches :
          fetches'[k].file \in DOMAIN files
            => files[fetches'[k].file].status \notin {"processing", "success"}
     /\ \A j, k \in DOMAIN fetches' :
          /\ fetches'[j].file = fetches'[k].file
          /\ fetches'[j].result = "ok"
          /\ fetches'[k].result = "ok"
          => j = k]_vars


----------------------------------------------------------------------------
\* One tag row per name

\* C24: with invocations one after the other, the tags table holds at most one
\* row per tag name, also after a tag list that names a new tag twice.
C24_OneRowPerName ==
  \A name \in Names : Cardinality(RowsNamed(tags, name)) <= 1


----------------------------------------------------------------------------
\* Saves and deletions of two pages at the same time

\* the save s of the editor or of the settings modal has returned without
\* error
SavedWithoutError(s) ==
  /\ pc[s] = "done"
  /\ outcome[s] = "saved"
  /\ save[s].handler \in {"editor", "settings"}

\* the association rows of article id are exactly those of tag list l, each
\* once
ExactlyThoseOf(id, l) ==
  /\ TagNamesOf(article_tags, id) = SeqToSet(l)
  /\ \A r \in RowsOfArticle(article_tags, id) : CopiesIn(r, article_tags) = 1

\* C25: when two concurrent saves of the same article with tag lists T1 and
\* T2 have both returned without error, the article's association rows are
\* exactly those of T1 or exactly those of T2: no row twice, not the union.
C25_OneOfTheTwoLists ==
  \A s, o \in Savers :
    ( /\ s # o
      /\ SavedWithoutError(s) /\ SavedWithoutError(o)
      /\ local[s].article.id = local[o].article.id )
    => \/ ExactlyThoseOf(local[s].article.id, save[s].tags)
       \/ ExactlyThoseOf(local[s].article.id, save[o].tags)


\* C26: under every interleaving of saves, replacements and deletions, every
\* association row references an article row and a tag row that exist, and a
\* deleted article is not created again: a step adds no article row with an
\* id the store handed out before.
C26_ReferencesExist ==
  [][/\ \A r \in BagToSet(article_tags') :
          /\ r.article_id \in IdsOf(articles')
          /\ r.tag_id \in IdsOf(tags')
     /\ \A a \in articles' : a.id \in IdsOf(articles) \/ a.id >= nextArticleId
    ]_vars


\* (what the model reaches with no failing call) a save that started before
\* the deletion has written after it: the deleted article's row is there
\* again, or an association row names the deleted article
C26_WrittenAfterDeletion ==
  \E s, o \in Savers :
    /\ save[s].handler = "delete"
    /\ Completed(s, "articleDelete", {"ok"})
    /\ save[o].handler \in {"editor", "settings", "replace"}
    /\ \A p \in Savers : \A i \in DOMAIN calls[p] : calls[p][i].result # "fault"
    /\ \/ local[s].article.id \in IdsOf(articles)
       \/ /\ local[s].article.id \notin IdsOf(articles)
          /\ RowsOfArticle(article_tags, local[s].article.id) # {}


----------------------------------------------------------------------------
\* The manager's parser and the endpoint's

\* C29: from the same file text and name, the parser written out in
\* replaceArticle computes the title, excerpt, category, date, tag list and
\* body that the endpoint computes, also for fields that are present but
\* empty.
C29_SameAsEndpoint ==
  derived.done =>
    \E now \in Clock :
      LET d == Derivation(markdown, filename, now)
      IN  /\ derived.title = d.title
          /\ derived.excerpt = d.excerpt
          /\ derived.category = d.category
          /\ derived.date = d.date
          /\ derived.tags = d.tags
          /\ derived.content = d.content

\* (what holds of the code) the two agree on the body, and on a field whenever
\* the endpoint's frontmatter value of it is not empty (for the tags: not
\* falsy)
C29_SameWhereNotEmpty ==
  derived.done =>
    LET d == Derivation(markdown, filename, derived.date)
        fm == d.frontmatter
    IN  /\ derived.content = d.content
        /\ (fm.isNull \/ fm.title # <<>>) /\ StripExtension(filename.text) # <<>>
             => derived.title = d.title
        /\ (fm.isNull \/ fm.excerpt # <<>>) => derived.excerpt = d.excerpt
        /\ (fm.isNull \/ fm.category # <<>>) => derived.category = d.category
        /\ (fm.isNull \/ fm.date # <<>>) => derived.date = d.date
        /\ (fm.isNull \/ Truthy(fm.tags)) => derived.tags = d.tags


----------------------------------------------------------------------------
\* The tag list of the metadata editor

NoDuplicate(list) == \A j, k \in DOMAIN list : list[j] = list[k] => j = k

NoBlank(list) == \A k \in DOMAIN list : Trim(list[k]) # <<>>

\* C30: every step of the metadata editor leaves the tag list as it is, or
\* appends the trimmed input, which is then not blank and not yet in the list,
\* or removes every occurrence of one name and nothing else; an add with a
\* blank input or with an input whose trimmed text is in the list changes
\* nothing; a list free of duplicates and blank names stays so.
C30_TagList ==
  [][LET name == Trim(newTag)
     IN  /\ \/ articleTags' = articleTags
            \/ /\ articleTags' = Append(articleTags, name)
               /\ name # <<>>
               /\ ~Includes(articleTags, name)
            \/ \E k \in DOMAIN articleTags :
                 /\ Len(articleTags') < Len(articleTags)
                 /\ ~Includes(articleTags', articleTags[k])
                 /\ articleTags' =
                      SelectSeq(articleTags, LAMBDA t : t # articleTags[k])
         /\ (name = <<>> \/ Includes(articleTags, name))
              => Len(articleTags') <= Len(articleTags)
         /\ (NoDuplicate(articleTags) /\ NoBlank(articleTags))
              => (NoDuplicate(articleTags') /\ NoBlank(articleTags'))
    ]_vars

\* "a b" was typed with nothing else and added, then " a" was typed while a
\* is in the list
C30_Witness ==
  /\ Includes(articleTags, <<"a", " ", "b">>)
  /\ Includes(articleTags, <<"a">>)
  /\ newTag = <<" ", "a">>


----------------------------------------------------------------------------
\* The stored article's derived columns and header

\* the body of a stored article: its markdown_content without the header
BodyOf(a) == parseFrontmatter(a.markdown_content).content

\* C27: after any sequence of ingestions, replacements and editor saves,
\* every stored article's slug is generateSlug of its title and its read_time
\* is estimateReadTime of its body.
C27_SlugAndReadTime ==
  \A a \in articles :
    /\ a.slug = generateSlug(a.title)
    /\ a.read_time = estimateReadTime(BodyOf(a))

\* C28: a stored markdown_content with a frontmatter header (the editor has
\* saved or published the article) has a header whose title, excerpt and
\* category are those of the article row and whose tags are the names of the
\* tags associated with the article; so a publish after a save leaves the
\* header's tags as the save wrote them.
C28_HeaderIsCurrent ==
  \A a \in articles :
    LET fm == parseFrontmatter(a.markdown_content).frontmatter
    IN  ~fm.isNull =>
          /\ fm.title = a.title
          /\ fm.excerpt = a.excerpt
          /\ fm.category = a.category
          /\ TagsAreNames(fm.tags)
          /\ SeqToSet(TagNames(fm.tags)) = TagNamesOf(article_tags, a.id)

====
